---- MODULE Spec2Model ----
(***************************************************************************)
(* Model of the comment engine of techzu-task: the Comment collection      *)
(* (backend/server.js, the mongoose schema and its methods) and the REST   *)
(* handlers of backend/controllers/commentController.js.                   *)
(*                                                                         *)
(* A handler is an async function: it awaits a read (findById), then       *)
(* awaits a write (save / create).  Other handlers run between the two.    *)
(* Every handler is therefore two actions: the part up to and including    *)
(* the read with its early returns, and the part from the write on (the    *)
(* write, the count query, the emit and the response).                     *)
(* The list handlers (getComments, getReplies) write nothing; each is one  *)
(* action per await: the find, and the count with the response.            *)
(*                                                                         *)
(* Storage follows mongoose's Document.save(): only the modified paths of  *)
(* the loaded document are written.  An array that was reassigned to a     *)
(* different value is written whole ($set) and the update is conditional   *)
(* on the version (__v) the document was loaded with; a mismatch throws    *)
(* VersionError.  An array that was only pushed to is written with $push,  *)
(* unconditionally.  Both increment __v.  A path assigned an equal value   *)
(* is not modified and is not written.                                     *)
(*                                                                         *)
(* The socket server (backend/server.js) relays the typing signals, and    *)
(* the React client (CommentList, CommentItem, CommentForm) folds the      *)
(* events of the log and the answers to its requests into what it shows.   *)
(***************************************************************************)
EXTENDS Integers, Sequences, FiniteSets, TLC

\* ---------------------------------------------------------------- bounds
NumUsers == 2
MaxComments == 3
MaxReqs == 4
MaxSeqReqs == 3
MaxListReqs == 2
NumProcs == 2
MaxInbox == 1

Users == 1..NumUsers

\* one socket connection (one browser) per user
Conns == Users
Ids == 1..MaxComments
Procs == 1..NumProcs

\* an id that is not 24 hexadecimal digits
MalformedId == 0 - 1

\* the ids the clients send in a path: well-formed ones and a malformed one
IdInputs == Ids \cup {MalformedId}

\* the parentComment of a request: absent (0), well-formed or malformed
ParentInputs == (0..MaxComments) \cup {MalformedId}

\* ------------------------------------------------------ program constants
MinContentLen == 1
MaxContentLen == 500

\* maxlength of commentSchema.content
SchemaMaxLen == 1000

\* request bodies the clients send as content (before sanitising): blank
\* text, and text that is trimmed (Create) or escaped (Update)
CreateInputs == { <<" ">>, <<" ", "a">> }

UpdateInputs == { << >>, <<"<">> }

\* -------------------------------------------------------------- variables
\* the backend: the Comment collection, the handler slots, the log of
\* published events, the latest response and the number of requests
VARIABLES comments, h, events, last, nreq

\* the socket server and the browsers: the members of the comments room,
\* the signals relayed to each connection and not yet handled, and the
\* React state of each connection's client
VARIABLES room, inbox, client

back == <<comments, h, events, last, nreq>>

front == <<room, inbox, client>>

vars == <<comments, h, events, last, nreq, room, inbox, client>>

\* ------------------------------------------------------- sanitising chain
RECURSIVE TrimLeft(_)
TrimLeft(s) == IF s # << >> /\ Head(s) = " " THEN TrimLeft(Tail(s)) ELSE s

RECURSIVE TrimRight(_)
TrimRight(s) ==
  IF s # << >> /\ s[Len(s)] = " " THEN TrimRight(SubSeq(s, 1, Len(s) - 1)) ELSE s

Trim(s) == TrimRight(TrimLeft(s))

EscapeChar(c) == IF c = "<" THEN <<"&", "l", "t", ";">> ELSE <<c>>

\* every character is replaced on its own (the text is split in halves so
\* that long texts are escaped in few nested steps)
RECURSIVE Escape(_)
Escape(s) ==
  IF s = << >> THEN << >>
  ELSE IF Len(s) = 1 THEN EscapeChar(s[1])
  ELSE Escape(SubSeq(s, 1, Len(s) \div 2)) \o Escape(SubSeq(s, Len(s) \div 2 + 1, Len(s)))

\* body('content').trim().isLength({min: 1, max: 500}).escape()
validateContent(raw) ==
  [ok |-> Len(Trim(raw)) >= MinContentLen /\ Len(Trim(raw)) <= MaxContentLen,
   value |-> Escape(Trim(raw))]

\* commentSchema.content: the trim setter, then the required and maxlength
\* validators that Comment.create and save() run
schemaContent(content) ==
  [ok |-> Len(Trim(content)) > 0 /\ Len(Trim(content)) <= SchemaMaxLen,
   value |-> Trim(content)]

\* validateObjectId / isMongoId: the id is 24 hexadecimal digits
isMongoId(id) == id # MalformedId

\* ------------------------------------------------------ the Comment model
\* a stored document; parentComment = 0 is null, v is mongoose's __v
NoDoc ==
  [content |-> << >>, author |-> 0, parentComment |-> 0, likes |-> << >>,
   dislikes |-> << >>, isEdited |-> FALSE, isActive |-> FALSE, v |-> 0]

NewDoc(content, author, parent) ==
  [content |-> content, author |-> author, parentComment |-> parent,
   likes |-> << >>, dislikes |-> << >>, isEdited |-> FALSE, isActive |-> TRUE,
   v |-> 0]

\* Comment.findById: the document, or NoDoc with found = FALSE
Exists(id) == id \in 1..Len(comments)

findById(id) == IF Exists(id) THEN comments[id] ELSE NoDoc

Range(s) == {s[i] : i \in 1..Len(s)}

\* array.filter(e => e.user.toString() !== userId.toString())
Without(s, userId) == SelectSeq(s, LAMBDA x : x # userId)

likeCount(doc) == Len(doc.likes)

dislikeCount(doc) == Len(doc.dislikes)

isLikedBy(doc, userId) == \E i \in 1..Len(doc.likes) : doc.likes[i] = userId

isDislikedBy(doc, userId) == \E i \in 1..Len(doc.dislikes) : doc.dislikes[i] = userId

canModifyAnyone(doc, userId) == TRUE

canModify(doc, userId) == doc.author = userId

\* The three reaction methods change the loaded document and record which
\* paths save() has to write: set = arrays reassigned to a different value,
\* push = arrays pushed to (with the pushed user).
addLikeKeepDislike(doc, userId) ==
  [doc |-> [doc EXCEPT !.likes = IF isLikedBy(doc, userId) THEN @ ELSE Append(@, userId)],
   set |-> {},
   push |-> IF isLikedBy(doc, userId) THEN {} ELSE {"likes"}]

addLikeAlways(doc, userId) ==
  [doc |-> [doc EXCEPT !.dislikes = Without(@, userId), !.likes = Append(@, userId)],
   set |-> IF Without(doc.dislikes, userId) # doc.dislikes THEN {"dislikes"} ELSE {},
   push |-> {"likes"}]

addLike(doc, userId) ==
  [doc |-> [doc EXCEPT !.dislikes = Without(@, userId),
                       !.likes = IF isLikedBy(doc, userId) THEN @ ELSE Append(@, userId)],
   set |-> IF Without(doc.dislikes, userId) # doc.dislikes THEN {"dislikes"} ELSE {},
   push |-> IF isLikedBy(doc, userId) THEN {} ELSE {"likes"}]

addDislikeAlways(doc, userId) ==
  [doc |-> [doc EXCEPT !.likes = Without(@, userId),
                       !.dislikes = Append(@, userId)],
   set |-> IF Without(doc.likes, userId) # doc.likes THEN {"likes"} ELSE {},
   push |-> {"dislikes"}]

addDislike(doc, userId) ==
  [doc |-> [doc EXCEPT !.likes = Without(@, userId),
                       !.dislikes = IF isDislikedBy(doc, userId) THEN @ ELSE Append(@, userId)],
   set |-> IF Without(doc.likes, userId) # doc.likes THEN {"likes"} ELSE {},
   push |-> IF isDislikedBy(doc, userId) THEN {} ELSE {"dislikes"}]

removeReactionLikesOnly(doc, userId) ==
  [doc |-> [doc EXCEPT !.likes = Without(@, userId)],
   set |-> IF Without(doc.likes, userId) # doc.likes THEN {"likes"} ELSE {},
   push |-> {}]

removeReactionMethod(doc, userId) ==
  [doc |-> [doc EXCEPT !.likes = Without(@, userId),
                       !.dislikes = Without(@, userId)],
   set |-> (IF Without(doc.likes, userId) # doc.likes THEN {"likes"} ELSE {})
           \cup (IF Without(doc.dislikes, userId) # doc.dislikes THEN {"dislikes"} ELSE {}),
   push |-> {}]

\* Document.save() of a reaction: m is the result of one of the three
\* methods above on the document loaded with version loaded.v, stored is
\* the document in the collection now.
VersionError(stored, loaded, m) == m.set # {} /\ stored.v # loaded.v

saveReaction(stored, m, userId) ==
  [stored EXCEPT
     !.likes = IF "likes" \in m.set THEN m.doc.likes
               ELSE IF "likes" \in m.push THEN Append(@, userId) ELSE @,
     !.dislikes = IF "dislikes" \in m.set THEN m.doc.dislikes
                  ELSE IF "dislikes" \in m.push THEN Append(@, userId) ELSE @,
     !.v = IF m.set \cup m.push # {} THEN @ + 1 ELSE @]

\* Comment.countDocuments({ isActive: true, parentComment: null })
countTopLevel(cs) ==
  Cardinality({i \in 1..Len(cs) : cs[i].isActive /\ cs[i].parentComment = 0})

\* ---------------------------------------------------------------- listing
DefaultPage == 1
MinPage == 1
DefaultLimit == 10
MinLimit == 1
MaxLimit == 100

validSortOptions == {"newest", "mostLiked", "mostDisliked"}

Max(a, b) == IF a >= b THEN a ELSE b

Min(a, b) == IF a <= b THEN a ELSE b

\* Math.ceil(a / b) for a >= 0, b > 0
Ceil(a, b) == (a + b - 1) \div b

\* parseInt(x) || d: a missing or non-numeric parameter parses to NaN, which
\* is falsy like 0; the inputs use 0 for it
parseIntOr(raw, d) == IF raw = 0 THEN d ELSE raw

\* page = Math.max(1, parseInt(req.query.page) || 1)
pageOf(rawPage) == Max(MinPage, parseIntOr(rawPage, DefaultPage))

\* limit = Math.min(Math.max(1, parseInt(req.query.limit) || 10), 100)
limitOf(rawLimit) == Min(Max(MinLimit, parseIntOr(rawLimit, DefaultLimit)), MaxLimit)

\* sort = req.query.sort || 'newest'
sortOf(rawSort) == IF rawSort = "" THEN "newest" ELSE rawSort

skipOf(page, limit) == (page - 1) * limit

\* (the filter leaves out isActive)
MatchingAll(cs, parent) == {i \in 1..Len(cs) : cs[i].parentComment = parent}

\* the documents matching { isActive: true, parentComment: parent }
Matching(cs, parent) ==
  {i \in 1..Len(cs) : cs[i].isActive /\ cs[i].parentComment = parent}

\* (the virtual has no match: deleted replies are counted)
replyCountAll(cs, id) == Cardinality(MatchingAll(cs, id))

\* the replyCount virtual: count of referencing documents, match isActive
replyCount(cs, id) == Cardinality(Matching(cs, id))

\* The key of an array field in a descending MongoDB sort is the largest
\* element of the array; an empty array sorts below every non-empty one.
\* The elements are embedded documents { user, createdAt, _id } and compare
\* field by field in stored order.  Which field mongoose stores first is not
\* fixed by this repository: "user" (then the entries of the largest user id
\* win, later entries among them) or "_id" (later entries win).
EntryOrders == {"user", "_id"}

sortField(doc, sort) == IF sort = "mostLiked" THEN doc.likes ELSE doc.dislikes

\* The createdAt (and _id) of the entry of userId in an array of comment id
\* is the time of the request that pushed it: with requests one at a time,
\* the position in the log of the first reaction event of that type by the
\* user on the comment since the user's last reaction of another type there.
entryTime(id, userId, type) ==
  LET mine == {j \in 1..Len(events) :
                 /\ events[j].kind \in {"commentReaction", "replyReaction"}
                 /\ events[j].id = id
                 /\ events[j].userId = userId}
      other == {j \in mine : events[j].type # type}
      same == {j \in mine : events[j].type = type /\ \A k \in other : k < j}
  IN IF same = {} THEN 0 ELSE CHOOSE j \in same : \A k \in same : j <= k

entryGreater(order, x, y) ==
  IF order = "user"
    THEN x.user > y.user \/ (x.user = y.user /\ x.time > y.time)
    ELSE x.time > y.time \/ (x.time = y.time /\ x.user > y.user)

sortKey(cs, id, sort, order) ==
  LET keys == {[user |-> u,
                time |-> entryTime(id, u, IF sort = "mostLiked" THEN "like" ELSE "dislike")] :
                 u \in Range(sortField(cs[id], sort))}
  IN IF keys = {} THEN [user |-> 0, time |-> 0]
     ELSE CHOOSE k \in keys : \A x \in keys : x = k \/ entryGreater(order, k, x)

\* document a sorts strictly before document b; createdAt grows with the id
sortsBefore(cs, sort, order, a, b) ==
  IF sort = "newest"
    THEN a > b
    ELSE LET ka == sortKey(cs, a, sort, order)
             kb == sortKey(cs, b, sort, order)
         IN entryGreater(order, ka, kb) \/ (ka = kb /\ a > b)

\* the orders find().sort(sortObj) can return the documents S in
RECURSIVE sorted(_, _, _, _)
sorted(cs, S, sort, order) ==
  IF S = {} THEN { << >> }
  ELSE UNION { { <<x>> \o t : t \in sorted(cs, S \ {x}, sort, order) } :
               x \in {y \in S : \A z \in S : ~sortsBefore(cs, sort, order, z, y)} }

\* .skip(skip).limit(limit)
skipLimit(s, skip, limit) == SubSeq(s, skip + 1, Min(skip + limit, Len(s)))

\* a listed document with the fields the handler adds for the caller
\* (userId = 0: no caller is authenticated); replies carry no replyCount
ListedReply(cs, id, userId) ==
  [id |-> id, content |-> cs[id].content, isEdited |-> cs[id].isEdited,
   parentComment |-> cs[id].parentComment,
   likeCount |-> Len(cs[id].likes), dislikeCount |-> Len(cs[id].dislikes),
   engagementScore |-> Len(cs[id].likes) - Len(cs[id].dislikes),
   isLikedByUser |-> userId # 0 /\ isLikedBy(cs[id], userId),
   isDislikedByUser |-> userId # 0 /\ isDislikedBy(cs[id], userId),
   canEdit |-> userId # 0 /\ cs[id].author = userId]

ListedComment(cs, id, userId) ==
  [id |-> id, content |-> cs[id].content, isEdited |-> cs[id].isEdited,
   parentComment |-> cs[id].parentComment,
   likeCount |-> Len(cs[id].likes), dislikeCount |-> Len(cs[id].dislikes),
   engagementScore |-> Len(cs[id].likes) - Len(cs[id].dislikes),
   isLikedByUser |-> userId # 0 /\ isLikedBy(cs[id], userId),
   isDislikedByUser |-> userId # 0 /\ isDislikedBy(cs[id], userId),
   canEdit |-> userId # 0 /\ cs[id].author = userId,
   replyCount |-> replyCount(cs, id)]

\* (endIndex is not capped by the total)
paginationUncapped(page, limit, total) ==
  [currentPage |-> page, limit |-> limit, total |-> total,
   totalPages |-> Ceil(total, limit),
   hasNextPage |-> page < Ceil(total, limit),
   hasPrevPage |-> page > 1,
   isFirstPage |-> page = 1,
   isLastPage |-> page = Ceil(total, limit),
   startIndex |-> skipOf(page, limit) + 1,
   endIndex |-> skipOf(page, limit) + limit,
   remainingItems |-> Max(0, total - (skipOf(page, limit) + limit))]

\* the pagination block of a successful listing
pagination(page, limit, total) ==
  [currentPage |-> page, limit |-> limit, total |-> total,
   totalPages |-> Ceil(total, limit),
   hasNextPage |-> page < Ceil(total, limit),
   hasPrevPage |-> page > 1,
   isFirstPage |-> page = 1,
   isLastPage |-> page = Ceil(total, limit),
   startIndex |-> skipOf(page, limit) + 1,
   endIndex |-> Min(skipOf(page, limit) + limit, total),
   remainingItems |-> Max(0, total - (skipOf(page, limit) + limit))]

\* empty page beyond the last page of a non-empty listing
pageExceeds(found, page, limit, total) ==
  found = << >> /\ page > Ceil(total, limit) /\ Ceil(total, limit) > 0

\* ------------------------------------------------- events and responses
NoTotal == 0 - 1

\* an event on the comments room; fields an event kind does not carry are
\* "" / NoTotal
Event(kind, id, type, doc, userId, total) ==
  [kind |-> kind, id |-> id, type |-> type, likeCount |-> likeCount(doc),
   dislikeCount |-> dislikeCount(doc), userId |-> userId, totalCount |-> total]

\* the reply variant of an event is used when the document has a parent
Kind(doc, top, reply) == IF doc.parentComment # 0 THEN reply ELSE top

\* the answer to a request: the HTTP status and the counts of the handler's
\* document (only the reaction handlers answer with counts)
Response(status, doc) ==
  [status |-> status, likeCount |-> likeCount(doc), dislikeCount |-> dislikeCount(doc)]

\* a handler slot: pc names the handler that awaits its write ("done": none),
\* doc is the document it loaded, since the length of the event log then
Idle == [pc |-> "done", user |-> 0, id |-> 0, content |-> << >>, doc |-> NoDoc,
         since |-> 0]

AllDone == \A q \in Procs : h[q].pc = "done"

\* handler slots are interchangeable: a request takes the lowest free one
Free(p) ==
  /\ h[p].pc = "done"
  /\ \A q \in Procs : q < p => h[q].pc # "done"
  /\ nreq < MaxReqs

\* an early return: the handler answers and is over
Return(status) ==
  /\ last' = Response(status, NoDoc)
  /\ UNCHANGED h

\* the handler awaits its write with the loaded document
Await(p, op, userId, id, content, doc) ==
  /\ h' = [h EXCEPT ![p] = [pc |-> op, user |-> userId, id |-> id,
                            content |-> content, doc |-> doc,
                            since |-> Len(events)]]
  /\ UNCHANGED last

\* the response after the write
Finish(p, status, doc) ==
  /\ last' = Response(status, doc)
  /\ h' = [h EXCEPT ![p] = Idle]

\* ----------------------------------------------------- the client's data
\* page size of the client's requests and of its pagination arithmetic
ClientLimit == 10

\* the properties a comment object may lack: an event carries the created
\* document, which has no replyCount and no flags of a caller
Optional == {"replyCount", "isLikedByUser", "isDislikedByUser"}

\* a comment object as a client holds it, here as an event carries it.  own
\* is the set of the optional properties the object has; a property it
\* lacks reads as undefined and is kept as 0 / FALSE, which is what `|| 0`
\* and a truth test make of it
Held(id, parent, likes, dislikes) ==
  [id |-> id, parentComment |-> parent, likeCount |-> likes,
   dislikeCount |-> dislikes, replyCount |-> 0, isLikedByUser |-> FALSE,
   isDislikedByUser |-> FALSE, own |-> {}]

\* comment._id: undefined (0) for an object that has no such property
idOf(x) == IF "id" \in DOMAIN x THEN x.id ELSE 0

\* the state of the CommentItem of one comment: not mounted, and the
\* useState initial values when it mounts with the prop comment
NoItem ==
  [mounted |-> FALSE, currentComment |-> Held(0, 0, 0, 0), replies |-> << >>,
   realTimeReplies |-> << >>, repliesLoadedFromServer |-> FALSE]

Mount(comment) ==
  [NoItem EXCEPT !.mounted = TRUE,
                 !.currentComment = [comment EXCEPT !.own = Optional]]

\* useState initial values of CommentList: no comment is displayed, nobody
\* is typing.  items is the state of the CommentItem keyed by each comment
\* id, seen the number of events of the log the socket has delivered, and
\* answered the created comments whose REST response was handled; isTyping
\* is the useState of CommentForm
NoClient ==
  [comments |-> << >>, typingUsers |-> {},
   pagination |-> [currentPage |-> 1, totalPages |-> 1, total |-> 0,
                   endIndex |-> 0, remainingItems |-> 0],
   items |-> [id \in Ids |-> NoItem], seen |-> 0, answered |-> {},
   isTyping |-> FALSE]

\* nobody has joined the room, nothing was relayed
InitFront ==
  /\ room = {}
  /\ inbox = [c \in Conns |-> << >>]
  /\ client = [c \in Conns |-> NoClient]

Init ==
  /\ comments = << >>
  /\ h = [p \in Procs |-> Idle]
  /\ events = << >>
  /\ last = Response(0, NoDoc)
  /\ nreq = 0
  /\ InitFront

\* the answers of the two listing handlers
ListOk(op, items, pg) ==
  [status |-> 200, op |-> op, comments |-> items, pagination |-> pg]

ListError(status, op, message) == [status |-> status, op |-> op, message |-> message]

PageError(op, page, totalPages, total) ==
  [status |-> 400, op |-> op, message |-> "Page number exceeds available pages",
   currentPage |-> page, totalPages |-> totalPages, total |-> total]

\* a listing takes the lowest free handler slot
Vacant(p) ==
  /\ h[p].pc = "done"
  /\ \A q \in Procs : q < p => h[q].pc # "done"

\* a listing handler awaits its next query: id is the parent listed under,
\* found the page it has fetched so far
AwaitList(p, op, userId, parent, page, limit, sort, found) ==
  /\ h' = [h EXCEPT ![p] = [pc |-> op, user |-> userId, id |-> parent,
                            content |-> << >>, doc |-> NoDoc, since |-> Len(events),
                            page |-> page, limit |-> limit, sort |-> sort,
                            found |-> found]]
  /\ UNCHANGED last

\* ---------------------------------------------------------- createComment
\* validation errors, then the parent check (controller lines 176-199)
createComment(p, userId, raw, parent) ==
  /\ Free(p)
  /\ Len(comments) + Cardinality({q \in Procs : h[q].pc = "createComment"}) < MaxComments
  /\ nreq' = nreq + 1
  /\ IF ~validateContent(raw).ok \/ ~isMongoId(parent)
       THEN Return(400)
       ELSE IF parent # 0 /\ (~Exists(parent) \/ ~findById(parent).isActive)
         THEN Return(400)
         ELSE Await(p, "createComment", userId, parent, validateContent(raw).value, NoDoc)
  /\ UNCHANGED <<comments, events>>
  /\ UNCHANGED front

\* Comment.create, countDocuments, emit, 201 (controller lines 201-224)
createCommentSave(p) ==
  /\ h[p].pc = "createComment"
  /\ LET doc == NewDoc(schemaContent(h[p].content).value, h[p].user, h[p].id)
         id == Len(comments) + 1
     IN IF ~schemaContent(h[p].content).ok
          THEN Finish(p, 500, NoDoc) /\ UNCHANGED <<comments, events>>
          ELSE /\ comments' = Append(comments, doc)
               /\ events' = Append(events,
                    IF h[p].id # 0
                      THEN Event("newReply", id, "", doc, h[p].user, NoTotal)
                      ELSE Event("newComment", id, "", doc, h[p].user,
                                 countTopLevel(Append(comments, doc))))
               /\ Finish(p, 201, doc)
  /\ UNCHANGED nreq
  /\ UNCHANGED front

\* ---------------------------------------------------------- updateComment
\* (the content is stored before the author is checked)
updateCommentWriteFirst(p, userId, id, raw) ==
  /\ Free(p)
  /\ nreq' = nreq + 1
  /\ IF ~isMongoId(id) \/ ~validateContent(raw).ok
       THEN Return(400) /\ UNCHANGED comments
       ELSE IF ~Exists(id) \/ ~findById(id).isActive
         THEN Return(404) /\ UNCHANGED comments
         ELSE IF ~canModify(findById(id), userId)
           THEN /\ Return(403)
                /\ comments' = [comments EXCEPT ![id].content = validateContent(raw).value]
           ELSE /\ Await(p, "updateComment", userId, id, validateContent(raw).value,
                         findById(id))
                /\ UNCHANGED comments
  /\ UNCHANGED events
  /\ UNCHANGED front

updateComment(p, userId, id, raw) ==
  /\ Free(p)
  /\ nreq' = nreq + 1
  /\ IF ~isMongoId(id) \/ ~validateContent(raw).ok
       THEN Return(400)
       ELSE IF ~Exists(id) \/ ~findById(id).isActive
         THEN Return(404)
         ELSE IF ~canModify(findById(id), userId)
           THEN Return(403)
           ELSE Await(p, "updateComment", userId, id, validateContent(raw).value,
                      findById(id))
  /\ UNCHANGED <<comments, events>>
  /\ UNCHANGED front

\* (the event is published and the request answered before the write)
updateCommentSaveEmitFirst(p) ==
  /\ h[p].pc = "updateComment"
  /\ LET doc == [h[p].doc EXCEPT !.content = h[p].content, !.isEdited = TRUE]
     IN /\ events' = Append(events,
             Event(Kind(doc, "commentUpdated", "replyUpdated"), h[p].id, "", doc,
                   h[p].user, NoTotal))
        /\ Finish(p, 200, doc)
  /\ UNCHANGED <<comments, nreq>>
  /\ UNCHANGED front

\* content and isEdited are the modified paths; no array is written
updateCommentSave(p) ==
  /\ h[p].pc = "updateComment"
  /\ LET content == schemaContent(h[p].content).value
         doc == [h[p].doc EXCEPT !.content = content, !.isEdited = TRUE]
     IN IF ~schemaContent(h[p].content).ok
          THEN Finish(p, 500, NoDoc) /\ UNCHANGED <<comments, events>>
          ELSE /\ comments' = [comments EXCEPT ![h[p].id].content = content,
                                               ![h[p].id].isEdited = TRUE]
               /\ events' = Append(events,
                    Event(Kind(doc, "commentUpdated", "replyUpdated"), h[p].id, "", doc,
                          h[p].user, NoTotal))
               /\ Finish(p, 200, doc)
  /\ UNCHANGED nreq
  /\ UNCHANGED front

\* ---------------------------------------------------------- deleteComment
deleteComment(p, userId, id) ==
  /\ Free(p)
  /\ nreq' = nreq + 1
  /\ IF ~isMongoId(id)
       THEN Return(400)
       ELSE IF ~Exists(id)
         THEN Return(404)
         ELSE IF ~canModify(findById(id), userId)
           THEN Return(403)
           ELSE Await(p, "deleteComment", userId, id, << >>, findById(id))
  /\ UNCHANGED <<comments, events>>
  /\ UNCHANGED front

\* (the delete cascades: the replies of the comment are deactivated too)
deleteCommentSaveCascade(p) ==
  /\ h[p].pc = "deleteComment"
  /\ LET doc == [h[p].doc EXCEPT !.isActive = FALSE]
         after == [i \in 1..Len(comments) |->
                     IF i = h[p].id \/ comments[i].parentComment = h[p].id
                       THEN [comments[i] EXCEPT !.isActive = FALSE]
                       ELSE comments[i]]
     IN /\ comments' = after
        /\ events' = Append(events,
             IF doc.parentComment # 0
               THEN Event("replyDeleted", h[p].id, "", doc, h[p].user, NoTotal)
               ELSE Event("commentDeleted", h[p].id, "", doc, h[p].user,
                          countTopLevel(after)))
        /\ Finish(p, 200, doc)
  /\ UNCHANGED nreq
  /\ UNCHANGED front

\* isActive is the modified path, and only when the loaded value was true
deleteCommentSave(p) ==
  /\ h[p].pc = "deleteComment"
  /\ LET doc == [h[p].doc EXCEPT !.isActive = FALSE]
         after == IF h[p].doc.isActive
                    THEN [comments EXCEPT ![h[p].id].isActive = FALSE]
                    ELSE comments
     IN /\ comments' = after
        /\ events' = Append(events,
             IF doc.parentComment # 0
               THEN Event("replyDeleted", h[p].id, "", doc, h[p].user, NoTotal)
               ELSE Event("commentDeleted", h[p].id, "", doc, h[p].user,
                          countTopLevel(after)))
        /\ Finish(p, 200, doc)
  /\ UNCHANGED nreq
  /\ UNCHANGED front

\* ------------------------------------------------------------- reactions
\* the method's save, then the emit and the response; a VersionError is
\* caught by the handler's catch block and answered with 500
ReactionSave(p, m, type) ==
  IF VersionError(comments[h[p].id], h[p].doc, m)
    THEN /\ Finish(p, 500, NoDoc)
         /\ UNCHANGED <<comments, events, nreq>>
    ELSE /\ comments' = [comments EXCEPT ![h[p].id] = saveReaction(@, m, h[p].user)]
         /\ events' = Append(events,
              Event(Kind(m.doc, "commentReaction", "replyReaction"), h[p].id, type,
                    m.doc, h[p].user, NoTotal))
         /\ Finish(p, 200, m.doc)
         /\ UNCHANGED nreq

likeComment(p, userId, id) ==
  /\ Free(p)
  /\ nreq' = nreq + 1
  /\ IF ~isMongoId(id)
       THEN Return(400)
       ELSE IF ~Exists(id) \/ ~findById(id).isActive
         THEN Return(404)
         ELSE Await(p, "likeComment", userId, id, << >>, findById(id))
  /\ UNCHANGED <<comments, events>>
  /\ UNCHANGED front

likeCommentSave(p) ==
  /\ h[p].pc = "likeComment"
  /\ ReactionSave(p, addLike(h[p].doc, h[p].user), "like")
  /\ UNCHANGED front

dislikeComment(p, userId, id) ==
  /\ Free(p)
  /\ nreq' = nreq + 1
  /\ IF ~isMongoId(id)
       THEN Return(400)
       ELSE IF ~Exists(id) \/ ~findById(id).isActive
         THEN Return(404)
         ELSE Await(p, "dislikeComment", userId, id, << >>, findById(id))
  /\ UNCHANGED <<comments, events>>
  /\ UNCHANGED front

dislikeCommentSave(p) ==
  /\ h[p].pc = "dislikeComment"
  /\ ReactionSave(p, addDislike(h[p].doc, h[p].user), "dislike")
  /\ UNCHANGED front

removeReaction(p, userId, id) ==
  /\ Free(p)
  /\ nreq' = nreq + 1
  /\ IF ~isMongoId(id)
       THEN Return(400)
       ELSE IF ~Exists(id) \/ ~findById(id).isActive
         THEN Return(404)
         ELSE Await(p, "removeReaction", userId, id, << >>, findById(id))
  /\ UNCHANGED <<comments, events>>
  /\ UNCHANGED front

removeReactionSave(p) ==
  /\ h[p].pc = "removeReaction"
  /\ ReactionSave(p, removeReactionMethod(h[p].doc, h[p].user), "remove")
  /\ UNCHANGED front

\* ------------------------------------------------------------ getComments
\* parameters, sort and parent validation, then find().sort().skip().limit()
\* with the replyCount populated (controller lines 8-80)
getComments(p, userId, rawPage, rawLimit, rawSort, parent) ==
  /\ Vacant(p)
  /\ LET page == pageOf(rawPage)
         limit == limitOf(rawLimit)
         sort == sortOf(rawSort)
     IN IF skipOf(page, limit) < 0
          THEN /\ last' = ListError(400, "getComments", "Invalid pagination parameters")
               /\ UNCHANGED h
          ELSE IF sort \notin validSortOptions
            THEN /\ last' = ListError(400, "getComments", "Invalid sort option")
                 /\ UNCHANGED h
            ELSE IF ~isMongoId(parent)
              THEN /\ last' = ListError(400, "getComments", "Invalid parent comment ID")
                   /\ UNCHANGED h
              ELSE \E order \in EntryOrders :
                   \E s \in sorted(comments, Matching(comments, parent), sort, order) :
                     LET docs == skipLimit(s, skipOf(page, limit), limit)
                     IN AwaitList(p, "getComments", userId, parent, page, limit, sort,
                          [i \in 1..Len(docs) |-> ListedComment(comments, docs[i], userId)])
  /\ UNCHANGED <<comments, events, nreq>>
  /\ UNCHANGED front

\* countDocuments, the page check and the response (controller lines 80-164)
getCommentsCount(p) ==
  /\ h[p].pc = "getComments"
  /\ LET total == Cardinality(Matching(comments, h[p].id))
     IN last' = IF pageExceeds(h[p].found, h[p].page, h[p].limit, total)
                  THEN PageError("getComments", h[p].page, Ceil(total, h[p].limit), total)
                  ELSE ListOk("getComments", h[p].found,
                              pagination(h[p].page, h[p].limit, total))
  /\ h' = [h EXCEPT ![p] = Idle]
  /\ UNCHANGED <<comments, events, nreq>>
  /\ UNCHANGED front

\* ------------------------------------------------------------- getReplies
\* (the parent is not loaded: replies are listed whatever its state)
getRepliesAnyParent(p, userId, id, rawPage, rawLimit, rawSort) ==
  /\ Vacant(p)
  /\ IF ~isMongoId(id)
       THEN /\ last' = ListError(400, "getReplies", "Invalid id ID format")
            /\ UNCHANGED h
       ELSE IF sortOf(rawSort) \notin validSortOptions
         THEN /\ last' = ListError(400, "getReplies", "Invalid sort option")
              /\ UNCHANGED h
         ELSE AwaitList(p, "getReplies", userId, id, pageOf(rawPage), limitOf(rawLimit),
                        sortOf(rawSort), << >>)
  /\ UNCHANGED <<comments, events, nreq>>
  /\ UNCHANGED front

\* validateObjectId, parameters, sort validation, then the parent is loaded
\* and must be active (controller lines 506-567)
getReplies(p, userId, id, rawPage, rawLimit, rawSort) ==
  /\ Vacant(p)
  /\ LET page == pageOf(rawPage)
         limit == limitOf(rawLimit)
         sort == sortOf(rawSort)
     IN IF ~isMongoId(id)
          THEN /\ last' = ListError(400, "getReplies", "Invalid id ID format")
               /\ UNCHANGED h
          ELSE IF skipOf(page, limit) < 0
            THEN /\ last' = ListError(400, "getReplies", "Invalid pagination parameters")
                 /\ UNCHANGED h
            ELSE IF sort \notin validSortOptions
              THEN /\ last' = ListError(400, "getReplies", "Invalid sort option")
                   /\ UNCHANGED h
              ELSE IF ~Exists(id) \/ ~findById(id).isActive
                THEN /\ last' = ListError(404, "getReplies",
                                          "Parent comment not found or inactive")
                     /\ UNCHANGED h
                ELSE AwaitList(p, "getReplies", userId, id, page, limit, sort, << >>)
  /\ UNCHANGED <<comments, events, nreq>>
  /\ UNCHANGED front

\* find({ parentComment, isActive }).sort().skip().limit() (lines 573-582)
getRepliesFind(p) ==
  /\ h[p].pc = "getReplies"
  /\ \E order \in EntryOrders :
     \E s \in sorted(comments, Matching(comments, h[p].id), h[p].sort, order) :
       LET docs == skipLimit(s, skipOf(h[p].page, h[p].limit), h[p].limit)
       IN h' = [h EXCEPT ![p].pc = "getRepliesCount",
                         ![p].found = [i \in 1..Len(docs) |->
                                         ListedReply(comments, docs[i], h[p].user)]]
  /\ UNCHANGED <<comments, events, last, nreq>>
  /\ UNCHANGED front

\* countDocuments, the page check and the response (lines 584-671)
getRepliesCount(p) ==
  /\ h[p].pc = "getRepliesCount"
  /\ LET total == Cardinality(Matching(comments, h[p].id))
     IN last' = IF pageExceeds(h[p].found, h[p].page, h[p].limit, total)
                  THEN PageError("getReplies", h[p].page, Ceil(total, h[p].limit), total)
                  ELSE ListOk("getReplies", h[p].found,
                              pagination(h[p].page, h[p].limit, total))
  /\ h' = [h EXCEPT ![p] = Idle]
  /\ UNCHANGED <<comments, events, nreq>>
  /\ UNCHANGED front

\* ----------------------------------------------------------- specifications
Writes ==
  \/ \E p \in Procs : createCommentSave(p)
  \/ \E p \in Procs : updateCommentSave(p)
  \/ \E p \in Procs : deleteCommentSave(p)
  \/ \E p \in Procs : likeCommentSave(p)
  \/ \E p \in Procs : dislikeCommentSave(p)
  \/ \E p \in Procs : removeReactionSave(p)

\* handlers overlap: a request may arrive while another awaits its write
Next ==
  \/ \E p \in Procs, u \in Users, raw \in CreateInputs, parent \in ParentInputs :
       createComment(p, u, raw, parent)
  \/ \E p \in Procs, u \in Users, id \in IdInputs, raw \in UpdateInputs :
       updateComment(p, u, id, raw)
  \/ \E p \in Procs, u \in Users, id \in IdInputs : deleteComment(p, u, id)
  \/ \E p \in Procs, u \in Users, id \in IdInputs : likeComment(p, u, id)
  \/ \E p \in Procs, u \in Users, id \in IdInputs : dislikeComment(p, u, id)
  \/ \E p \in Procs, u \in Users, id \in IdInputs : removeReaction(p, u, id)
  \/ Writes

Spec == Init /\ [][Next]_vars

\* requests processed one at a time: a request arrives only when no handler
\* awaits its write
Serial == AllDone /\ nreq < MaxSeqReqs

NextSeq ==
  \/ \E p \in Procs, u \in Users, raw \in CreateInputs, parent \in ParentInputs :
       Serial /\ createComment(p, u, raw, parent)
  \/ \E p \in Procs, u \in Users, id \in IdInputs, raw \in UpdateInputs :
       Serial /\ updateComment(p, u, id, raw)
  \/ \E p \in Procs, u \in Users, id \in IdInputs : Serial /\ deleteComment(p, u, id)
  \/ \E p \in Procs, u \in Users, id \in IdInputs : Serial /\ likeComment(p, u, id)
  \/ \E p \in Procs, u \in Users, id \in IdInputs : Serial /\ dislikeComment(p, u, id)
  \/ \E p \in Procs, u \in Users, id \in IdInputs : Serial /\ removeReaction(p, u, id)
  \/ Writes

SpecSeq == Init /\ [][NextSeq]_vars

\* ------------------------------------------------- specifications with List
\* the queries the clients send: the caller (nobody authenticated, or the
\* first user) and the sort option ("": absent, "oldest": not an option)
Callers == {0, 1}

SortInputs == {"", "newest", "mostLiked", "mostDisliked", "oldest"}

ListSteps ==
  \/ \E p \in Procs : getCommentsCount(p)
  \/ \E p \in Procs : getRepliesFind(p)
  \/ \E p \in Procs : getRepliesCount(p)

\* requests one at a time, up to MaxListReqs mutations; at any time any
\* caller lists the first page, newest first, of the top-level comments or
\* of a parent
Scarce == AllDone /\ nreq < MaxListReqs

NextList ==
  \/ \E p \in Procs, u \in Users, raw \in CreateInputs, parent \in ParentInputs :
       Scarce /\ createComment(p, u, raw, parent)
  \/ \E p \in Procs, u \in Users, id \in IdInputs, raw \in UpdateInputs :
       Scarce /\ updateComment(p, u, id, raw)
  \/ \E p \in Procs, u \in Users, id \in IdInputs : Scarce /\ deleteComment(p, u, id)
  \/ \E p \in Procs, u \in Users, id \in IdInputs : Scarce /\ likeComment(p, u, id)
  \/ \E p \in Procs, u \in Users, id \in IdInputs : Scarce /\ dislikeComment(p, u, id)
  \/ \E p \in Procs, u \in Users, id \in IdInputs : Scarce /\ removeReaction(p, u, id)
  \/ Writes
  \/ \E p \in Procs, u \in Callers, parent \in ParentInputs :
       AllDone /\ getComments(p, u, 0, 0, "", parent)
  \/ \E p \in Procs, u \in Callers, id \in IdInputs :
       AllDone /\ getReplies(p, u, id, 0, 0, "")
  \/ ListSteps

SpecList == Init /\ [][NextList]_vars

\* Threads: comments and replies are created and deleted one at a time, up
\* to MaxReqs requests; at any time the first page of the top level or of the
\* replies of the first comment is listed.
NextThread ==
  \/ \E p \in Procs, u \in Users, raw \in CreateInputs, parent \in ParentInputs :
       AllDone /\ createComment(p, u, raw, parent)
  \/ \E p \in Procs, u \in Users, id \in IdInputs : AllDone /\ deleteComment(p, u, id)
  \/ \E p \in Procs : createCommentSave(p)
  \/ \E p \in Procs : deleteCommentSave(p)
  \/ \E p \in Procs : AllDone /\ getComments(p, 0, 0, 0, "", 0)
  \/ \E p \in Procs : AllDone /\ getReplies(p, 0, 1, 0, 0, "")
  \/ ListSteps

SpecThread == Init /\ [][NextThread]_vars

\* Sorting: comments are created, liked and disliked one at a time, up to
\* MaxReqs requests; at any time the first page of the top level is listed
\* under a sort option.
NextSort ==
  \/ \E p \in Procs, u \in Users, raw \in CreateInputs, parent \in ParentInputs :
       AllDone /\ createComment(p, u, raw, parent)
  \/ \E p \in Procs, u \in Users, id \in IdInputs : AllDone /\ likeComment(p, u, id)
  \/ \E p \in Procs, u \in Users, id \in IdInputs : AllDone /\ dislikeComment(p, u, id)
  \/ \E p \in Procs : createCommentSave(p)
  \/ \E p \in Procs : likeCommentSave(p)
  \/ \E p \in Procs : dislikeCommentSave(p)
  \/ \E p \in Procs, srt \in SortInputs : AllDone /\ getComments(p, 0, 0, 0, srt, 0)
  \/ \E p \in Procs, srt \in SortInputs : AllDone /\ getReplies(p, 0, 1, 0, 0, srt)
  \/ ListSteps

SpecSort == Init /\ [][NextSort]_vars

\* Pagination on larger collections: the collection holds n comments of one
\* user, the first a top-level comment and the others all top-level or all
\* replies to the first, and pages of it are listed.
MaxTotal == 25
MaxPage == 4

PageInputs == (0 - 1)..MaxPage

LimitInputs == {0 - 1, 0, 1, 10, 100, 101}

InitPage ==
  /\ \E n \in 0..MaxTotal, parent \in {0, 1} :
       comments = [i \in 1..n |-> NewDoc(<<"a">>, 1, IF i = 1 THEN 0 ELSE parent)]
  /\ h = [p \in Procs |-> Idle]
  /\ events = << >>
  /\ last = Response(0, NoDoc)
  /\ nreq = 0
  /\ InitFront

NextPage ==
  \/ \E p \in Procs, pg \in PageInputs, lim \in LimitInputs :
       AllDone /\ getComments(p, 0, pg, lim, "", 0)
  \/ \E p \in Procs, pg \in PageInputs, lim \in LimitInputs :
       AllDone /\ getReplies(p, 0, 1, pg, lim, "")
  \/ ListSteps

SpecPage == InitPage /\ [][NextPage]_vars

\* Listings that overlap mutations: top-level comments and replies are
\* created and deleted while the first page of the top level or of the
\* replies of the first comment is listed; a write may commit between the
\* find and the count of a listing.
NextRace ==
  \/ \E p \in Procs, u \in Users, raw \in CreateInputs, parent \in {0, 1} :
       createComment(p, u, raw, parent)
  \/ \E p \in Procs, u \in Users, id \in Ids : deleteComment(p, u, id)
  \/ \E p \in Procs : createCommentSave(p)
  \/ \E p \in Procs : deleteCommentSave(p)
  \/ \E p \in Procs : getComments(p, 0, 0, 0, "", 0)
  \/ \E p \in Procs : getReplies(p, 0, 1, 0, 0, "")
  \/ ListSteps

SpecRace == Init /\ [][NextRace]_vars

\* ------------------------------------------------------ the socket server
\* a relayed signal as a connection receives it
Signal(name, username) == [name |-> name, username |-> username]

\* socket.join('comments') / socket.leave('comments')
joinComments(c) ==
  /\ room' = room \cup {c}
  /\ UNCHANGED <<inbox, client>>
  /\ UNCHANGED back

leaveComments(c) ==
  /\ room' = room \ {c}
  /\ UNCHANGED <<inbox, client>>
  /\ UNCHANGED back

\* (io.to('comments').emit: every member of the room, the sender included)
toRoomAll(c, name, username) ==
  /\ \A d \in room : Len(inbox[d]) < MaxInbox
  /\ inbox' = [d \in Conns |->
                 IF d \in room THEN Append(inbox[d], Signal(name, username)) ELSE inbox[d]]
  /\ UNCHANGED <<room, client>>
  /\ UNCHANGED back

\* socket.to('comments').emit(name, data): every member of the room but the
\* sending connection
toRoom(c, name, username) ==
  /\ \A d \in room \ {c} : Len(inbox[d]) < MaxInbox
  /\ inbox' = [d \in Conns |->
                 IF d \in room \ {c} THEN Append(inbox[d], Signal(name, username))
                 ELSE inbox[d]]
  /\ UNCHANGED <<room, client>>
  /\ UNCHANGED back

\* socket.on('typing') / socket.on('stopTyping'); the client of connection
\* c sends { username } with the name of its own user (emitTyping /
\* emitStopTyping)
typing(c) == toRoom(c, "userTyping", c)

stopTyping(c) == toRoom(c, "userStopTyping", c)

\* the client of connection c handles the next relayed signal:
\* onUserTyping / onUserStopTyping ignore the client's own user name
onSignal(c) ==
  /\ inbox[c] # << >>
  /\ inbox' = [inbox EXCEPT ![c] = Tail(@)]
  /\ LET sig == Head(inbox[c])
     IN client' = [client EXCEPT ![c].typingUsers =
          IF sig.username = c THEN @
          ELSE IF sig.name = "userTyping" THEN @ \cup {sig.username}
          ELSE @ \ {sig.username}]
  /\ UNCHANGED room
  /\ UNCHANGED back

\* the connections whose users type; the others only listen
Typists == {1, 2}

NextTyping ==
  \/ \E c \in Conns : joinComments(c)
  \/ \E c \in Conns : leaveComments(c)
  \/ \E c \in Typists : typing(c)
  \/ \E c \in Typists : stopTyping(c)
  \/ \E c \in Conns : onSignal(c)

SpecTyping == Init /\ [][NextTyping]_vars

\* --------------------------------------------- typing in the comment form
\* what socket.to('comments').emit(name, { username }) of connection c makes
\* of the inboxes
Relay(c, name, username) ==
  [d \in Conns |->
     IF d \in room \ {c} THEN Append(inbox[d], Signal(name, username)) ELSE inbox[d]]

\* the relay has room in the inboxes it reaches
CanRelay(c) == \A d \in room \ {c} : Len(inbox[d]) < MaxInbox

\* socketService.connect: the socket connects and joins the comments room
connect(c) ==
  /\ c \notin room
  /\ room' = room \cup {c}
  /\ UNCHANGED <<inbox, client>>
  /\ UNCHANGED back

\* CommentForm.handleChange: the first character of a text emits typing,
\* emptying the field emits stopTyping
handleChange(c, empty) ==
  /\ c \in room
  /\ CanRelay(c)
  /\ IF ~client[c].isTyping /\ ~empty
       THEN /\ client' = [client EXCEPT ![c].isTyping = TRUE]
            /\ inbox' = Relay(c, "userTyping", c)
       ELSE IF client[c].isTyping /\ empty
         THEN /\ client' = [client EXCEPT ![c].isTyping = FALSE]
              /\ inbox' = Relay(c, "userStopTyping", c)
         ELSE UNCHANGED <<inbox, client>>
  /\ UNCHANGED room
  /\ UNCHANGED back

\* CommentForm.handleBlur, and handleSubmit after a successful answer: a
\* typing user stops
handleBlur(c) ==
  /\ c \in room
  /\ CanRelay(c)
  /\ client[c].isTyping
  /\ client' = [client EXCEPT ![c].isTyping = FALSE]
  /\ inbox' = Relay(c, "userStopTyping", c)
  /\ UNCHANGED room
  /\ UNCHANGED back

\* The connection closes (the tab is closed, or CommentList unmounts and
\* calls socketService.disconnect): the socket leaves its rooms, what was
\* relayed to it is dropped and the state of its components is gone.  The
\* server's disconnect handler only logs, and CommentForm has no cleanup.
disconnect(c) ==
  /\ c \in room
  /\ room' = room \ {c}
  /\ inbox' = [inbox EXCEPT ![c] = << >>]
  /\ client' = [client EXCEPT ![c] = NoClient]
  /\ UNCHANGED back

NextForm ==
  \/ \E c \in Conns : connect(c)
  \/ \E c \in Typists : handleBlur(c)
  \/ \E c \in Typists, empty \in BOOLEAN : handleChange(c, empty)
  \/ \E c \in Conns : disconnect(c)
  \/ \E c \in Conns : onSignal(c)

\* a relayed signal is eventually handled by the client it was relayed to
SpecForm ==
  /\ Init
  /\ [][NextForm]_vars
  /\ \A c \in Conns : WF_vars(onSignal(c))

\* ------------------------------------------------------ the React client
\* the comment of a newComment / newReply event: the created document as
\* JSON, with the virtual counts
Payload(e) == Held(e.id, comments[e.id].parentComment, e.likeCount, e.dislikeCount)

\* response.data.data of a Create: the object { comment }, which
\* CommentForm hands to onCommentCreated as it is
CreateData(id) == [comment |-> Held(id, 0, 0, 0)]

ListIds(list) == {idOf(list[i]) : i \in 1..Len(list)}

\* the first object of the list with that id
Entry(list, id) == list[CHOOSE i \in 1..Len(list) :
                          idOf(list[i]) = id /\ \A j \in 1..(i - 1) : idOf(list[j]) # id]

\* CommentList, the newComment listener: the comment is put in front
onNewComment(list, e) ==
  IF Payload(e).parentComment = 0 THEN <<Payload(e)>> \o list ELSE list

\* ... and the pagination follows the event's totalCount
onNewCommentTotal(pg, e) ==
  IF Payload(e).parentComment = 0 /\ e.totalCount # NoTotal
    THEN [pg EXCEPT !.total = e.totalCount,
                    !.totalPages = Ceil(e.totalCount, ClientLimit),
                    !.endIndex = Min(e.totalCount, pg.currentPage * ClientLimit),
                    !.remainingItems = Max(0, e.totalCount - pg.currentPage * ClientLimit)]
    ELSE pg

\* CommentList, the newReply listener: replyCount of the parent plus one
onNewReply(list, e) ==
  IF Payload(e).parentComment = 0 THEN list
  ELSE [i \in 1..Len(list) |->
          IF idOf(list[i]) = Payload(e).parentComment
            THEN [list[i] EXCEPT !.replyCount = @ + 1, !.own = @ \cup {"replyCount"}]
            ELSE list[i]]

\* (the flags follow the type of every user's reaction)
onCommentReactionAnyUser(list, e, user) ==
  [i \in 1..Len(list) |->
     IF idOf(list[i]) # e.id THEN list[i]
     ELSE [list[i] EXCEPT
            !.likeCount = e.likeCount,
            !.dislikeCount = e.dislikeCount,
            !.isLikedByUser =
               IF e.type = "like" THEN TRUE ELSE IF e.type = "remove" THEN FALSE ELSE @,
            !.isDislikedByUser =
               IF e.type = "dislike" THEN TRUE ELSE IF e.type = "remove" THEN FALSE ELSE @,
            !.own = @ \cup {"isLikedByUser", "isDislikedByUser"}]]

\* CommentList, the commentReaction listener; user is the client's user
onCommentReaction(list, e, user) ==
  [i \in 1..Len(list) |->
     IF idOf(list[i]) # e.id THEN list[i]
     ELSE [list[i] EXCEPT
            !.likeCount = e.likeCount,
            !.dislikeCount = e.dislikeCount,
            !.isLikedByUser =
               IF e.userId = user
                 THEN (IF e.type = "like" THEN TRUE
                       ELSE IF e.type = "remove" THEN FALSE ELSE @)
                 ELSE @,
            !.isDislikedByUser =
               IF e.userId = user
                 THEN (IF e.type = "dislike" THEN TRUE
                       ELSE IF e.type = "remove" THEN FALSE ELSE @)
                 ELSE @,
            !.own = @ \cup {"isLikedByUser", "isDislikedByUser"}]]

\* CommentList, the commentUpdated listener: the event's comment replaces
\* the entry
onCommentUpdated(list, e) ==
  [i \in 1..Len(list) |-> IF idOf(list[i]) = e.id THEN Payload(e) ELSE list[i]]

\* (the entry in front is removed, whatever its id)
onCommentDeletedFront(list, e) == IF list = << >> THEN list ELSE Tail(list)

\* CommentList, the commentDeleted listener: the entry is filtered out; when
\* the entry found has a parent, the parent's replyCount is decremented
onCommentDeleted(list, e) ==
  LET found == {i \in 1..Len(list) : idOf(list[i]) = e.id}
      parent == IF found = {} THEN 0 ELSE Entry(list, e.id).parentComment
      mapped == IF parent = 0 THEN list
                ELSE [i \in 1..Len(list) |->
                        IF idOf(list[i]) = parent
                          THEN [list[i] EXCEPT !.replyCount = Max(0, @ - 1),
                                               !.own = @ \cup {"replyCount"}]
                          ELSE list[i]]
  IN SelectSeq(mapped, LAMBDA x : idOf(x) # e.id)

\* ... and the pagination follows the event's totalCount (the listener's
\* own comments is the empty list of the first render, in which no comment
\* has a parent)
onCommentDeletedTotal(pg, e) ==
  IF e.totalCount # NoTotal
    THEN [pg EXCEPT !.total = e.totalCount,
                    !.totalPages = Ceil(e.totalCount, ClientLimit),
                    !.endIndex = Min(e.totalCount, pg.currentPage * ClientLimit),
                    !.remainingItems = Max(0, e.totalCount - pg.currentPage * ClientLimit)]
    ELSE pg

\* CommentList.handleCommentDeleted, the onCommentDeleted prop of CommentItem
handleCommentDeleted(list, id) == SelectSeq(list, LAMBDA x : idOf(x) # id)

\* CommentList.handleCommentCreated: the new object is put in front
handleCommentCreated(list, newComment) == <<newComment>> \o list

\* CommentItem.handleCommentReaction: the counts of the event, and the
\* flags when the reaction is the client's user's
handleCommentReaction(it, e, user) ==
  IF e.id # it.currentComment.id THEN it
  ELSE [it EXCEPT !.currentComment =
          [@ EXCEPT !.likeCount = e.likeCount,
                    !.dislikeCount = e.dislikeCount,
                    !.isLikedByUser = IF e.userId = user THEN e.type = "like" ELSE @,
                    !.isDislikedByUser = IF e.userId = user THEN e.type = "dislike" ELSE @]]

\* updateReplyReaction of CommentItem.handleReplyReaction
updateReplyReaction(reply, e, user) ==
  IF reply.id # e.id THEN reply
  ELSE [reply EXCEPT !.likeCount = e.likeCount,
                     !.dislikeCount = e.dislikeCount,
                     !.isLikedByUser = IF e.userId = user THEN e.type = "like" ELSE @,
                     !.isDislikedByUser = IF e.userId = user THEN e.type = "dislike" ELSE @,
                     !.own = IF e.userId = user
                               THEN @ \cup {"isLikedByUser", "isDislikedByUser"}
                               ELSE @]

\* CommentItem.handleReplyReaction: skipped for the item's own comment
handleReplyReaction(it, e, user) ==
  IF e.id = it.currentComment.id THEN it
  ELSE [it EXCEPT
          !.replies = [i \in 1..Len(@) |-> updateReplyReaction(@[i], e, user)],
          !.realTimeReplies = [i \in 1..Len(@) |-> updateReplyReaction(@[i], e, user)]]

\* CommentItem.handleNewReply: the reply is put in front of realTimeReplies
\* unless it is there, and replyCount is incremented
handleNewReply(it, e) ==
  IF Payload(e).parentComment # it.currentComment.id THEN it
  ELSE [it EXCEPT
          !.realTimeReplies =
             IF \E i \in 1..Len(@) : @[i].id = e.id THEN @ ELSE <<Payload(e)>> \o @,
          !.currentComment = [@ EXCEPT !.replyCount = @ + 1]]

\* CommentItem, the effect on [comment]: { ...prev, ...comment }
spread(prev, comment) ==
  [id |-> comment.id, parentComment |-> comment.parentComment,
   likeCount |-> comment.likeCount, dislikeCount |-> comment.dislikeCount,
   replyCount |-> IF "replyCount" \in comment.own
                    THEN comment.replyCount ELSE prev.replyCount,
   isLikedByUser |-> IF "isLikedByUser" \in comment.own
                       THEN comment.isLikedByUser ELSE prev.isLikedByUser,
   isDislikedByUser |-> IF "isDislikedByUser" \in comment.own
                          THEN comment.isDislikedByUser ELSE prev.isDislikedByUser,
   own |-> prev.own \cup comment.own]

\* CommentItem.handleCommentUpdated: { ...prev, ...updatedComment }
handleCommentUpdated(it, e) ==
  IF e.id # it.currentComment.id THEN it
  ELSE [it EXCEPT !.currentComment = spread(@, Payload(e))]

\* CommentItem.handleReplyUpdated: the event's comment replaces the reply
handleReplyUpdated(it, e) ==
  [it EXCEPT
     !.replies = [i \in 1..Len(@) |-> IF @[i].id = e.id THEN Payload(e) ELSE @[i]],
     !.realTimeReplies = [i \in 1..Len(@) |-> IF @[i].id = e.id THEN Payload(e) ELSE @[i]]]

\* CommentItem.handleReplyDeleted: the reply is filtered out of replies and
\* of realTimeReplies, and replyCount is decremented for each of the two
\* that held it
handleReplyDeleted(it, e) ==
  LET inReplies == \E i \in 1..Len(it.replies) : it.replies[i].id = e.id
      inRealTime == \E i \in 1..Len(it.realTimeReplies) : it.realTimeReplies[i].id = e.id
      once == IF inReplies THEN Max(0, it.currentComment.replyCount - 1)
              ELSE it.currentComment.replyCount
      twice == IF inRealTime THEN Max(0, once - 1) ELSE once
  IN [it EXCEPT
        !.replies = SelectSeq(@, LAMBDA x : x.id # e.id),
        !.realTimeReplies = SelectSeq(@, LAMBDA x : x.id # e.id),
        !.currentComment = [@ EXCEPT !.replyCount = twice]]

\* the render after a change of the list: a CommentItem mounts for a
\* comment that entered the list (key = _id) and unmounts for one that left
\* it; the effect on [comment] runs in the items whose object the listener
\* re-created.  An object without _id has no key, and its CommentItem holds
\* nothing an event can match.
Render(list, items, recreated) ==
  [id \in Ids |->
     IF id \notin ListIds(list) THEN NoItem
     ELSE IF ~items[id].mounted THEN Mount(Entry(list, id))
     ELSE IF id \in recreated
       THEN [items[id] EXCEPT !.currentComment = spread(@, Entry(list, id))]
       ELSE items[id]]

\* One event of the comments room at one client.  socket.io calls the
\* listener of CommentList and the listeners of every mounted CommentItem;
\* their state updates are batched (React 19) into one render, after which
\* the effects run.  CommentList has no listener for replyUpdated,
\* replyDeleted and replyReaction.
Dispatch(cl, e, user) ==
  LET list == IF e.kind = "newComment" THEN onNewComment(cl.comments, e)
              ELSE IF e.kind = "newReply" THEN onNewReply(cl.comments, e)
              ELSE IF e.kind = "commentUpdated" THEN onCommentUpdated(cl.comments, e)
              ELSE IF e.kind = "commentDeleted" THEN onCommentDeleted(cl.comments, e)
              ELSE IF e.kind = "commentReaction"
                THEN onCommentReaction(cl.comments, e, user)
                ELSE cl.comments
      handled == [id \in Ids |->
                    IF ~cl.items[id].mounted THEN cl.items[id]
                    ELSE IF e.kind = "newReply" THEN handleNewReply(cl.items[id], e)
                    ELSE IF e.kind = "commentUpdated"
                      THEN handleCommentUpdated(cl.items[id], e)
                    ELSE IF e.kind = "replyUpdated"
                      THEN handleReplyUpdated(cl.items[id], e)
                    ELSE IF e.kind = "replyDeleted"
                      THEN handleReplyDeleted(cl.items[id], e)
                    ELSE IF e.kind = "commentReaction"
                      THEN handleCommentReaction(cl.items[id], e, user)
                    ELSE IF e.kind = "replyReaction"
                      THEN handleReplyReaction(cl.items[id], e, user)
                      ELSE cl.items[id]]
      recreated == IF e.kind = "newReply" THEN {Payload(e).parentComment}
                   ELSE IF e.kind \in {"commentReaction", "commentUpdated"} THEN {e.id}
                   ELSE {}
  IN [cl EXCEPT !.comments = list,
                !.pagination = IF e.kind = "newComment" THEN onNewCommentTotal(@, e)
                               ELSE IF e.kind = "commentDeleted"
                                 THEN onCommentDeletedTotal(@, e)
                                 ELSE @,
                !.items = Render(list, handled, recreated)]

\* the socket of connection c delivers the next event of the log (req.io.emit
\* reaches every connection, each event once and in order); the client's
\* user is the connection's
onEvent(c) ==
  /\ client[c].seen < Len(events)
  /\ client' = [client EXCEPT ![c] =
       [Dispatch(client[c], events[client[c].seen + 1], c) EXCEPT !.seen = @ + 1]]
  /\ UNCHANGED <<room, inbox>>
  /\ UNCHANGED back

\* the Create responses a client has still to handle
Unanswered(c) ==
  {id \in 1..Len(comments) :
     /\ comments[id].author = c
     /\ comments[id].parentComment = 0
     /\ id \notin client[c].answered}

\* CommentForm.handleSubmit after the await: the 201 response of the Create
\* of comment id, which the client's user posted, arrives (before or after
\* the newComment event) and is handed to CommentList.handleCommentCreated
onCreateResponse(c, id) ==
  /\ id \in Unanswered(c)
  /\ client' = [client EXCEPT ![c] =
       [@ EXCEPT !.comments = handleCommentCreated(@, CreateData(id)),
                 !.items = Render(handleCommentCreated(client[c].comments, CreateData(id)),
                                  @, {}),
                 !.answered = @ \cup {id}]]
  /\ UNCHANGED <<room, inbox>>
  /\ UNCHANGED back

\* a reply of a getReplies answer as the client holds it
HeldReply(x) ==
  [id |-> x.id, parentComment |-> x.parentComment, likeCount |-> x.likeCount,
   dislikeCount |-> x.dislikeCount, replyCount |-> 0,
   isLikedByUser |-> x.isLikedByUser, isDislikedByUser |-> x.isDislikedByUser,
   own |-> {"isLikedByUser", "isDislikedByUser"}]

\* CommentItem.loadReplies(1), which handleToggleReplies and handleReplyClick
\* call while the replies were not loaded: the first page of the replies of
\* comment id, newest first, replaces replies.  The parent must be active
\* (404 otherwise, which the catch block only logs).
loadReplies(c, id) ==
  /\ client[c].items[id].mounted
  /\ ~client[c].items[id].repliesLoadedFromServer
  /\ Exists(id)
  /\ findById(id).isActive
  /\ \E s \in sorted(comments, Matching(comments, id), "newest", "user") :
       LET docs == skipLimit(s, 0, ClientLimit)
       IN client' = [client EXCEPT
            ![c].items[id].replies =
               [i \in 1..Len(docs) |-> HeldReply(ListedReply(comments, docs[i], c))],
            ![c].items[id].repliesLoadedFromServer = TRUE]
  /\ UNCHANGED <<room, inbox>>
  /\ UNCHANGED back

\* the connections whose clients are followed; the other users only act
Viewers == {1}

\* the users who post and react
Actors == {1, 2}

\* the text the users post
PostInputs == { <<"a">> }

\* a request arrives when no handler awaits its write and the viewers have
\* received the events and the answers so far
Settled ==
  /\ Serial
  /\ \A c \in Viewers : client[c].seen = Len(events) /\ Unanswered(c) = {}

\* the users post comments, reply to the comments there are and react to
\* them, one request at a time; the clients of the viewers receive the
\* events and the answers
NextClient ==
  \/ \E p \in Procs, u \in Actors, raw \in PostInputs, parent \in 0..MaxComments :
       Settled /\ (parent = 0 \/ Exists(parent)) /\ createComment(p, u, raw, parent)
  \/ \E p \in Procs, u \in Actors, id \in Ids :
       Settled /\ Exists(id) /\ likeComment(p, u, id)
  \/ \E p \in Procs, u \in Actors, id \in Ids :
       Settled /\ Exists(id) /\ dislikeComment(p, u, id)
  \/ \E p \in Procs, u \in Actors, id \in Ids :
       Settled /\ Exists(id) /\ removeReaction(p, u, id)
  \/ \E p \in Procs : createCommentSave(p)
  \/ \E p \in Procs : likeCommentSave(p)
  \/ \E p \in Procs : dislikeCommentSave(p)
  \/ \E p \in Procs : removeReactionSave(p)
  \/ \E c \in Viewers : onEvent(c)
  \/ \E c \in Viewers, id \in Ids : onCreateResponse(c, id)
  \/ \E c \in Viewers, id \in Ids : loadReplies(c, id)

SpecClient == Init /\ [][NextClient]_vars

\* CommentItem.handleDelete after the await: the 200 response of the Delete
\* of the displayed top-level comment id, which the client's user (its
\* author) deleted, arrives and the item calls its onCommentDeleted prop
onDeleteResponse(c, id) ==
  /\ Exists(id)
  /\ ~comments[id].isActive
  /\ comments[id].author = c
  /\ id \in ListIds(client[c].comments)
  /\ client' = [client EXCEPT ![c] =
       [@ EXCEPT !.comments = handleCommentDeleted(@, id),
                 !.items = Render(handleCommentDeleted(client[c].comments, id), @, {})]]
  /\ UNCHANGED <<room, inbox>>
  /\ UNCHANGED back

\* the users post comments, reply to the comments there are and delete
\* them, one request at a time; the clients of the viewers receive the
\* events and the answers
NextClientThread ==
  \/ \E p \in Procs, u \in Actors, raw \in PostInputs, parent \in 0..MaxComments :
       Settled /\ (parent = 0 \/ Exists(parent)) /\ createComment(p, u, raw, parent)
  \/ \E p \in Procs, u \in Actors, id \in Ids :
       Settled /\ Exists(id) /\ deleteComment(p, u, id)
  \/ \E p \in Procs : createCommentSave(p)
  \/ \E p \in Procs : deleteCommentSave(p)
  \/ \E c \in Viewers : onEvent(c)
  \/ \E c \in Viewers, id \in Ids : onCreateResponse(c, id)
  \/ \E c \in Viewers, id \in Ids : onDeleteResponse(c, id)
  \/ \E c \in Viewers, id \in Ids : loadReplies(c, id)

SpecClientThread == Init /\ [][NextClientThread]_vars

\* the users post top-level comments one at a time and react to the
\* comments there are while other reactions await their write; the clients
\* of the viewers receive the events
NextClientOverlap ==
  \/ \E p \in Procs, u \in Actors, raw \in PostInputs :
       AllDone /\ createComment(p, u, raw, 0)
  \/ \E p \in Procs, u \in Actors, id \in Ids : Exists(id) /\ likeComment(p, u, id)
  \/ \E p \in Procs, u \in Actors, id \in Ids : Exists(id) /\ dislikeComment(p, u, id)
  \/ \E p \in Procs, u \in Actors, id \in Ids : Exists(id) /\ removeReaction(p, u, id)
  \/ \E p \in Procs : createCommentSave(p)
  \/ \E p \in Procs : likeCommentSave(p)
  \/ \E p \in Procs : dislikeCommentSave(p)
  \/ \E p \in Procs : removeReactionSave(p)
  \/ \E c \in Viewers : onEvent(c)

SpecClientOverlap == Init /\ [][NextClientOverlap]_vars

\* --------------------------------------- specification with a failing emit
\* req.io.emit stands inside the handler's try block, after the write and
\* before the response: when it throws, the catch block answers 500.  The
\* write is the one of the handler's save step; no event is published.
createCommentEmitThrows(p) ==
  /\ h[p].pc = "createComment"
  /\ schemaContent(h[p].content).ok
  /\ comments' = Append(comments,
                        NewDoc(schemaContent(h[p].content).value, h[p].user, h[p].id))
  /\ Finish(p, 500, NoDoc)
  /\ UNCHANGED <<events, nreq>>
  /\ UNCHANGED front

updateCommentEmitThrows(p) ==
  /\ h[p].pc = "updateComment"
  /\ schemaContent(h[p].content).ok
  /\ comments' = [comments EXCEPT ![h[p].id].content = schemaContent(h[p].content).value,
                                  ![h[p].id].isEdited = TRUE]
  /\ Finish(p, 500, NoDoc)
  /\ UNCHANGED <<events, nreq>>
  /\ UNCHANGED front

deleteCommentEmitThrows(p) ==
  /\ h[p].pc = "deleteComment"
  /\ comments' = IF h[p].doc.isActive
                   THEN [comments EXCEPT ![h[p].id].isActive = FALSE]
                   ELSE comments
  /\ Finish(p, 500, NoDoc)
  /\ UNCHANGED <<events, nreq>>
  /\ UNCHANGED front

reactionEmitThrows(p) ==
  /\ h[p].pc \in {"likeComment", "dislikeComment", "removeReaction"}
  /\ LET m == IF h[p].pc = "likeComment" THEN addLike(h[p].doc, h[p].user)
              ELSE IF h[p].pc = "dislikeComment" THEN addDislike(h[p].doc, h[p].user)
              ELSE removeReactionMethod(h[p].doc, h[p].user)
     IN /\ ~VersionError(comments[h[p].id], h[p].doc, m)
        /\ comments' = [comments EXCEPT ![h[p].id] = saveReaction(@, m, h[p].user)]
  /\ Finish(p, 500, NoDoc)
  /\ UNCHANGED <<events, nreq>>
  /\ UNCHANGED front

EmitThrows ==
  \/ \E p \in Procs : createCommentEmitThrows(p)
  \/ \E p \in Procs : updateCommentEmitThrows(p)
  \/ \E p \in Procs : deleteCommentEmitThrows(p)
  \/ \E p \in Procs : reactionEmitThrows(p)

\* requests one at a time; the emit of a handler succeeds or throws
NextFault == NextSeq \/ EmitThrows

SpecFault == Init /\ [][NextFault]_vars

\* ------------------------------------------ specification with long content
\* n times the character c
Rep(c, n) == [i \in 1..n |-> c]

\* request bodies around the limits: blank, the longest accepted text with a
\* blank to trim, one character more, and texts of "<" whose escaped form is
\* as long as the validator's limit, longer, and longer than the schema's
ContentInputs ==
  { <<" ">>,
    <<" ">> \o Rep("a", MaxContentLen),
    Rep("a", MaxContentLen + 1),
    Rep("<", MaxContentLen \div 4),
    Rep("<", MaxContentLen \div 4 + 1),
    Rep("<", SchemaMaxLen \div 4 + 1) }

NextContent ==
  \/ \E p \in Procs, raw \in ContentInputs : Serial /\ createComment(p, 1, raw, 0)
  \/ \E p \in Procs, id \in Ids, raw \in ContentInputs :
       Serial /\ updateComment(p, 1, id, raw)
  \/ \E p \in Procs : createCommentSave(p)
  \/ \E p \in Procs : updateCommentSave(p)

SpecContent == Init /\ [][NextContent]_vars

\* ------------------------------------------------------------------ claims
ReactionOps == {"likeComment", "dislikeComment", "removeReaction"}

TypeOf(op) ==
  IF op = "likeComment" THEN "like" ELSE IF op = "dislikeComment" THEN "dislike" ELSE "remove"

\* the reaction state of a user on a document
Liked(doc, u) == u \in Range(doc.likes)

Disliked(doc, u) == u \in Range(doc.dislikes)

\* number of entries a user has in an array
Entries(s, u) == Cardinality({i \in 1..Len(s) : s[i] = u})

\* handler p completes its write in this step
Completes(p) == h[p].pc # "done" /\ h'[p].pc = "done"

IsReactionEvent(e, type, u, id) ==
  e.kind \in {"commentReaction", "replyReaction"} /\ e.type = type /\ e.userId = u /\ e.id = id

\* C1: with requests processed one at a time, no user is in both the likes
\* and the dislikes of the same comment.
C1_MutualExclusion ==
  \A id \in 1..Len(comments), u \in Users :
    ~(Liked(comments[id], u) /\ Disliked(comments[id], u))

\* a user who disliked a comment earlier now likes it
C1_Witness ==
  \E id \in 1..Len(comments), u \in Users :
    /\ Liked(comments[id], u)
    /\ \E i \in 1..Len(events) : IsReactionEvent(events[i], "dislike", u, id)

\* C4: like leaves the user LIKED, dislike DISLIKED, remove-reaction NONE,
\* from any prior state, and no other user's membership changes.
C4_TransitionTable ==
  [][\A p \in Procs :
       (h[p].pc \in ReactionOps /\ Completes(p)) =>
         LET u == h[p].user
             before == comments[h[p].id]
             after == comments'[h[p].id]
         IN /\ h[p].pc = "likeComment" => Liked(after, u) /\ ~Disliked(after, u)
            /\ h[p].pc = "dislikeComment" => Disliked(after, u) /\ ~Liked(after, u)
            /\ h[p].pc = "removeReaction" => ~Liked(after, u) /\ ~Disliked(after, u)
            /\ \A w \in Users \ {u} :
                 /\ Liked(after, w) = Liked(before, w)
                 /\ Disliked(after, w) = Disliked(before, w)]_vars

\* the last request was a dislike of u on a comment that another user likes
C4_Witness ==
  /\ events # << >>
  /\ last.status = 200
  /\ \E u \in Users, w \in Users, id \in 1..Len(comments) :
       /\ u # w
       /\ IsReactionEvent(events[Len(events)], "dislike", u, id)
       /\ Liked(comments[id], w)
       /\ Disliked(comments[id], u)

\* C5: a reaction request that repeats the last successful request (same
\* kind, same user, same comment) leaves likes and dislikes as they are and
\* answers 200 with the counts of the first call.
C5_Idempotence ==
  [][\A p \in Procs :
       ( /\ h[p].pc \in ReactionOps
         /\ Completes(p)
         /\ events # << >>
         /\ IsReactionEvent(events[Len(events)], TypeOf(h[p].pc), h[p].user, h[p].id) )
       => /\ comments'[h[p].id].likes = comments[h[p].id].likes
          /\ comments'[h[p].id].dislikes = comments[h[p].id].dislikes
          /\ last'.status = 200
          /\ last'.likeCount = events[Len(events)].likeCount
          /\ last'.dislikeCount = events[Len(events)].dislikeCount]_vars

\* the same user disliked the same comment twice in a row, both answered
C5_Witness ==
  /\ Len(events) >= 2
  /\ last.status = 200
  /\ \E u \in Users, id \in 1..Len(comments) :
       /\ IsReactionEvent(events[Len(events)], "dislike", u, id)
       /\ IsReactionEvent(events[Len(events) - 1], "dislike", u, id)
       /\ Disliked(comments[id], u)

\* users who held a non-NONE state on a comment at some time: those with a
\* published like or dislike on it
EverReacted(id) ==
  {events[i].userId : i \in {j \in 1..Len(events) :
      /\ events[j].kind \in {"commentReaction", "replyReaction"}
      /\ events[j].id = id
      /\ events[j].type \in {"like", "dislike"}}}

NowReacted(id) == {u \in Users : Liked(comments[id], u) \/ Disliked(comments[id], u)}

\* C6 as stated: likeCount + dislikeCount equals the number of users who
\* ever held a non-NONE state on the comment.
C6_EverCount ==
  \A id \in 1..Len(comments) :
    likeCount(comments[id]) + dislikeCount(comments[id]) = Cardinality(EverReacted(id))

\* C6 amended: likeCount + dislikeCount equals the number of users who
\* hold a non-NONE state on the comment now (requests one at a time).
C6_CurrentCount ==
  \A id \in 1..Len(comments) :
    likeCount(comments[id]) + dislikeCount(comments[id]) = Cardinality(NowReacted(id))

\* one user likes and another dislikes the same comment
C6_Witness ==
  \E id \in 1..Len(comments), u \in Users, w \in Users :
    /\ Liked(comments[id], u)
    /\ Disliked(comments[id], w)
    /\ likeCount(comments[id]) + dislikeCount(comments[id]) = 2

\* C7: the parent of every reply is a top-level comment.
C7_SingleLevel ==
  \A id \in 1..Len(comments) :
    comments[id].parentComment # 0 => comments[comments[id].parentComment].parentComment = 0

\* an Update with valid content, or a Delete, by u on id arrives in this step
UpdateArrives(u, id) ==
  \E p \in Procs, raw \in UpdateInputs :
    validateContent(raw).ok /\ updateComment(p, u, id, raw)

DeleteArrives(u, id) == \E p \in Procs : deleteComment(p, u, id)

ReactionArrives(u, id) ==
  \E p \in Procs : likeComment(p, u, id) \/ dislikeComment(p, u, id) \/ removeReaction(p, u, id)

\* C8: Update or Delete by a non-author on an existing active comment is
\* answered 403 (not 404), the handler is over, nothing is stored or published.
C8_Authorization ==
  [][\A u \in Users, id \in Ids :
       ( /\ Exists(id)
         /\ comments[id].isActive
         /\ comments[id].author # u
         /\ nreq' = nreq + 1
         /\ UpdateArrives(u, id) \/ DeleteArrives(u, id) )
       => /\ last'.status = 403
          /\ last'.status # 404
          /\ UNCHANGED <<comments, events, h>>]_vars

\* a 403 was answered while every stored comment is active
C8_Witness ==
  /\ last.status = 403
  /\ comments # << >>
  /\ \A id \in 1..Len(comments) : comments[id].isActive
  /\ AllDone

\* C9: Update, Delete, like, dislike and remove-reaction on a missing or
\* inactive comment are answered 404 at once, whoever the caller is.
C9_NotFound ==
  [][\A u \in Users, id \in Ids :
       ( /\ ~Exists(id) \/ ~comments[id].isActive
         /\ nreq' = nreq + 1
         /\ UpdateArrives(u, id) \/ DeleteArrives(u, id) \/ ReactionArrives(u, id) )
       => last'.status = 404 /\ UNCHANGED <<comments, events, h>>]_vars

\* C10: a Delete by the author of a comment that was already inactive when
\* the handler read it changes no stored state and publishes no event.
C10_DeleteRetryNoOp ==
  [][\A p \in Procs :
       (h[p].pc = "deleteComment" /\ ~h[p].doc.isActive /\ Completes(p))
       => UNCHANGED <<comments, events>>]_vars

\* C11: a Create, Update, Delete or reaction request that is rejected (400
\* for content or a malformed id, 403, 404) stores nothing and publishes no
\* event: the stored comments and the event log are as before the request.
C11_FailedMutationNoEffect ==
  [][(nreq' = nreq + 1 /\ h' = h /\ last'.status \in {400, 403, 404})
       => UNCHANGED <<comments, events>>]_vars

\* a request was rejected for validation while comments are stored
C11_Witness ==
  /\ last.status = 400
  /\ comments # << >>
  /\ Len(events) >= Len(comments)
  /\ AllDone

\* C16: a successful Delete changes only the isActive flag of its target:
\* the target's other fields and every other comment, its replies included,
\* are as before.
C16_DeleteFrame ==
  [][\A p \in Procs :
       (h[p].pc = "deleteComment" /\ Completes(p) /\ last'.status = 200)
       => /\ Len(comments') = Len(comments)
          /\ comments'[h[p].id] = [comments[h[p].id] EXCEPT !.isActive = FALSE]
          /\ \A id \in 1..Len(comments) : id # h[p].id => comments'[id] = comments[id]]_vars

\* the last request deleted a comment whose reply is still active
C16_Witness ==
  /\ events # << >>
  /\ events[Len(events)].kind = "commentDeleted"
  /\ last.status = 200
  /\ \E r \in 1..Len(comments) :
       /\ comments[r].parentComment = events[Len(events)].id
       /\ comments[r].isActive
       /\ ~comments[events[Len(events)].id].isActive

\* a reply to x is created in this step / an active reply of x is deleted
ReplyCreated(x) ==
  \E p \in Procs : h[p].pc = "createComment" /\ Completes(p) /\ h[p].id = x

ReplyDeleted(x) ==
  \E p \in Procs :
    /\ h[p].pc = "deleteComment"
    /\ Completes(p)
    /\ h[p].doc.parentComment = x
    /\ comments[h[p].id].isActive

\* C13: the replyCount of a comment grows by one when a reply to it is
\* created, shrinks by one when an active reply of it is deleted and is
\* changed by nothing else, so a create followed by the delete of that reply
\* returns it to its value before the create.
C13_ReplyCount ==
  [][\A x \in 1..Len(comments) :
       replyCount(comments', x) =
         replyCount(comments, x) + (IF ReplyCreated(x) THEN 1 ELSE 0)
                                 - (IF ReplyDeleted(x) THEN 1 ELSE 0)]_vars

\* a reply was created and then deleted; its parent has replyCount 0 again
C13_Witness ==
  /\ AllDone
  /\ \E i \in 1..Len(events), j \in 1..Len(events) :
       /\ i < j
       /\ events[i].kind = "newReply"
       /\ events[j].kind = "replyDeleted"
       /\ events[j].id = events[i].id
       /\ comments[comments[events[i].id].parentComment].isActive
       /\ replyCount(comments, comments[events[i].id].parentComment) = 0

\* a listing handler answers in this step
ListOps == {"getComments", "getRepliesCount"}

IsList(r) == "op" \in DOMAIN r

IsListOk(r) == IsList(r) /\ r.status = 200

\* the active comments stored under a parent (0: the top level)
ActiveUnder(parent) ==
  {id \in 1..Len(comments) : comments[id].isActive /\ comments[id].parentComment = parent}

Listed(r) == {r.comments[i].id : i \in 1..Len(r.comments)}

\* a deleted top-level comment with n active replies
Orphaned(id, n) ==
  /\ Exists(id)
  /\ ~comments[id].isActive
  /\ comments[id].parentComment = 0
  /\ Cardinality(ActiveUnder(id)) = n

RepliesArrive(id) == \E p \in Procs : getReplies(p, 0, id, 0, 0, "")

\* C14 as stated: once a top-level comment with 2 active replies is deleted,
\* a top-level listing excludes it, and a listing of its replies is accepted
\* and answered with those 2 replies.
C14_OrphansListed ==
  [][/\ \A p \in Procs :
          (h[p].pc = "getComments" /\ h[p].id = 0 /\ Completes(p) /\ last'.status = 200)
          => \A id \in Listed(last') : ~Orphaned(id, 2)
     /\ \A id \in Ids :
          (Orphaned(id, 2) /\ AllDone /\ RepliesArrive(id))
          => \E p \in Procs : h'[p].pc = "getReplies"
     /\ \A p \in Procs :
          (h[p].pc = "getRepliesCount" /\ Completes(p) /\ Orphaned(h[p].id, 2))
          => last'.status = 200 /\ Listed(last') = ActiveUnder(h[p].id)]_vars

\* C14 amended: the delete of a top-level comment leaves its replies active
\* and a top-level listing excludes the deleted comment, but a listing of
\* the replies of a deleted comment is answered 404 and lists nothing.
C14_OrphansNotFound ==
  [][/\ \A p \in Procs :
          (h[p].pc = "getComments" /\ h[p].id = 0 /\ Completes(p) /\ last'.status = 200)
          => \A id \in Listed(last') : comments[id].isActive
     /\ \A p \in Procs :
          (h[p].pc = "deleteComment" /\ Completes(p))
          => \A r \in ActiveUnder(h[p].id) : comments'[r].isActive
     /\ \A id \in Ids :
          (Exists(id) /\ ~comments[id].isActive /\ AllDone /\ RepliesArrive(id))
          => last' = ListError(404, "getReplies", "Parent comment not found or inactive")
             /\ h' = h]_vars

\* the replies of a deleted top-level comment with 2 active replies were
\* requested and the answer was 404
C14_Witness ==
  /\ IsList(last)
  /\ AllDone
  /\ last.status = 404
  /\ last.op = "getReplies"
  /\ \E id \in Ids : Orphaned(id, 2)
  /\ events # << >>
  /\ events[Len(events)].kind = "commentDeleted"

\* a listing under a parent id arrives in this step, by either route
ListUnderArrives(id) ==
  \E p \in Procs, u \in Callers :
    getComments(p, u, 0, 0, "", id) \/ getReplies(p, u, id, 0, 0, "")

\* C15: a listing under a specific parent id, by GET /comments with
\* parentComment or by GET /comments/:id/replies, is answered 404 when the
\* parent is missing or inactive, and no page is fetched.
C15_ListNeedsLiveParent ==
  [][\A id \in Ids :
       ( /\ ~Exists(id) \/ ~comments[id].isActive
         /\ AllDone
         /\ ListUnderArrives(id) )
       => IsList(last') /\ last'.status = 404 /\ h' = h]_vars

\* C17: the pagination block of a successful listing has page >= 1, limit in
\* 1..100, total >= 0, startIndex = (page-1)*limit + 1, endIndex =
\* min(page*limit, total), remainingItems = max(0, total - page*limit),
\* totalPages = ceil(total/limit), hasNextPage = (page < totalPages),
\* hasPrevPage = (page > 1), isFirstPage = (page = 1); with total 25 and
\* limit 10, page 1 gives 1/10/15 and a next page, page 3 gives 21/25/0 and
\* is the last page.
C17_PaginationArithmetic ==
  IsListOk(last) =>
    LET pg == last.pagination
        page == pg.currentPage
        limit == pg.limit
        total == pg.total
    IN /\ page >= 1 /\ limit \in 1..100 /\ total >= 0
       /\ pg.startIndex = (page - 1) * limit + 1
       /\ pg.endIndex = (IF page * limit <= total THEN page * limit ELSE total)
       /\ pg.remainingItems = (IF total - page * limit >= 0 THEN total - page * limit ELSE 0)
       /\ pg.totalPages * limit >= total
       /\ (pg.totalPages - 1) * limit < total \/ (total = 0 /\ pg.totalPages = 0)
       /\ pg.hasNextPage = (page < pg.totalPages)
       /\ pg.hasPrevPage = (page > 1)
       /\ pg.isFirstPage = (page = 1)
       /\ (total = 25 /\ limit = 10 /\ page = 1)
            => /\ pg.startIndex = 1 /\ pg.endIndex = 10 /\ pg.remainingItems = 15
               /\ pg.hasNextPage
       /\ (total = 25 /\ limit = 10 /\ page = 3)
            => /\ pg.startIndex = 21 /\ pg.endIndex = 25 /\ pg.remainingItems = 0
               /\ pg.isLastPage

\* page 3 of 25 comments was listed with limit 10: comments 5 down to 1
C17_Witness ==
  /\ IsListOk(last)
  /\ AllDone
  /\ last.pagination.total = 25
  /\ last.pagination.limit = 10
  /\ last.pagination.currentPage = 3
  /\ Len(last.comments) = 5
  /\ last.comments[1].id = 5

\* C18: a listing of a page beyond max(1, ceil(total/limit)) is answered
\* with an error that carries totalPages, never with a success.
C18_PageOutOfRange ==
  [][\A p \in Procs :
       ( /\ h[p].pc \in ListOps
         /\ Completes(p)
         /\ h[p].page > Max(1, Ceil(Cardinality(ActiveUnder(h[p].id)), h[p].limit)) )
       => /\ last'.status = 400
          /\ "totalPages" \in DOMAIN last'
          /\ last'.totalPages = Ceil(Cardinality(ActiveUnder(h[p].id)), h[p].limit)]_vars

\* a listing with page pg and limit lim arrives in this step, by either route
PageArrives(pg, lim) ==
  \E p \in Procs : getComments(p, 0, pg, lim, "", 0) \/ getReplies(p, 0, 1, pg, lim, "")

\* C19: a listing is not rejected for its page and limit; it uses the page
\* max(1, page) and the limit min(max(1, limit), 100), so a limit below 1,
\* 0 included, becomes 1, a limit above 100 becomes 100, a page below 1
\* becomes 1.
C19_Clamping ==
  [][\A pg \in PageInputs, lim \in LimitInputs :
       ( /\ AllDone
         /\ comments # << >>
         /\ PageArrives(pg, lim) )
       => \E p \in Procs :
            /\ h'[p].pc \in {"getComments", "getReplies"}
            /\ h'[p].page = (IF pg >= 1 THEN pg ELSE 1)
            /\ h'[p].limit = (IF lim < 1 THEN 1 ELSE IF lim > 100 THEN 100 ELSE lim)]_vars

\* item a may stand before item b in a listing sorted by count (likeCount
\* or dislikeCount): a larger count first, equal counts newest first
CountOrdered(ca, cb, a, b) == ca > cb \/ (ca = cb /\ a.id > b.id)

\* C20: a listing under mostLiked is in non-increasing order of the number
\* of likes (mostDisliked: of dislikes), equal numbers newest first; under
\* newest it is newest first; a sort value that is none of the three is
\* answered with an error.
C20_SortOrder ==
  [][/\ \A p \in Procs :
          (h[p].pc \in ListOps /\ Completes(p) /\ last'.status = 200)
          => \A i \in 1..Len(last'.comments), j \in 1..Len(last'.comments) :
               i < j =>
                 LET a == last'.comments[i]
                     b == last'.comments[j]
                 IN IF h[p].sort = "mostLiked"
                      THEN CountOrdered(a.likeCount, b.likeCount, a, b)
                      ELSE IF h[p].sort = "mostDisliked"
                        THEN CountOrdered(a.dislikeCount, b.dislikeCount, a, b)
                        ELSE a.id > b.id
     /\ (AllDone /\ \E p \in Procs : getComments(p, 0, 0, 0, "oldest", 0))
          => IsList(last') /\ last'.status = 400 /\ h' = h]_vars

\* the latest event of user w on comment id among those published after
\* position n of the log (0 if none)
LatestSince(n, w, id) ==
  LET js == {j \in (n + 1)..Len(events) :
               /\ events[j].kind \in {"commentReaction", "replyReaction"}
               /\ events[j].userId = w
               /\ events[j].id = id}
  IN IF js = {} THEN 0 ELSE CHOOSE j \in js : \A k \in js : k <= j

Requested(doc, type, u) == IF type = "like" THEN Liked(doc, u) ELSE Disliked(doc, u)

\* C2: when a like or dislike of user u completes and a like or dislike of
\* another user w on the same comment was saved since u's handler read the
\* comment, both reactions are in the stored comment.
C2_NoLostUpdate ==
  [][\A p \in Procs, w \in Users :
       ( /\ h[p].pc \in {"likeComment", "dislikeComment"}
         /\ Completes(p)
         /\ w # h[p].user
         /\ LatestSince(h[p].since, w, h[p].id) # 0
         /\ events[LatestSince(h[p].since, w, h[p].id)].type \in {"like", "dislike"} )
       => /\ Requested(comments'[h[p].id], TypeOf(h[p].pc), h[p].user)
          /\ Requested(comments'[h[p].id],
                       events[LatestSince(h[p].since, w, h[p].id)].type, w)]_vars

\* C3: when a reaction of user u completes and another reaction of the same
\* user on the same comment was saved since the handler read the comment,
\* the stored comment holds at most one entry for u in likes and dislikes.
C3_OneEntryUnderOverlap ==
  [][\A p \in Procs :
       ( /\ h[p].pc \in ReactionOps
         /\ Completes(p)
         /\ LatestSince(h[p].since, h[p].user, h[p].id) # 0 )
       => Entries(comments'[h[p].id].likes, h[p].user)
            + Entries(comments'[h[p].id].dislikes, h[p].user) <= 1]_vars

\* C21: the stored content of every comment has between 1 and 500
\* characters, and a Create, or an Update by the author of an active comment,
\* whose content has 1 to 500 characters after trimming is accepted: it is
\* not answered 400, and its write is answered 201 / 200.
C21_ContentLength ==
  [][/\ \A id \in 1..Len(comments') :
          /\ Len(comments'[id].content) >= MinContentLen
          /\ Len(comments'[id].content) <= MaxContentLen
     /\ \A p \in Procs, raw \in ContentInputs :
          (Len(Trim(raw)) >= MinContentLen /\ Len(Trim(raw)) <= MaxContentLen)
            => /\ (AllDone /\ createComment(p, 1, raw, 0)) => h'[p].pc = "createComment"
               /\ \A id \in 1..Len(comments) :
                    (AllDone /\ comments[id].isActive /\ updateComment(p, 1, id, raw))
                      => h'[p].pc = "updateComment"
     /\ \A p \in Procs :
          (h[p].pc \in {"createComment", "updateComment"} /\ Completes(p))
            => last'.status \in {200, 201}]_vars

\* C22: an accepted Update of comment id by its author with content c2
\* stores exactly c2 and isEdited = TRUE, a Create stores isEdited = FALSE,
\* nothing but an Update changes isEdited, and a List shows every comment
\* with its stored content and isEdited: after Create(c1), Update(id, c2)
\* the List shows content = c2 and isEdited = TRUE, and a comment never
\* updated is listed with isEdited = FALSE.
C22_RoundTrip ==
  [][/\ \A p \in Procs, u \in Users, id \in Ids, raw \in UpdateInputs :
          ( /\ AllDone
            /\ validateContent(raw).ok
            /\ updateComment(p, u, id, raw)
            /\ h'[p].pc = "updateComment" )
          => h'[p].content = raw
     /\ \A p \in Procs :
          (h[p].pc = "updateComment" /\ Completes(p) /\ last'.status = 200)
          => /\ comments'[h[p].id].content = h[p].content
             /\ comments'[h[p].id].isEdited
     /\ \A p \in Procs :
          (h[p].pc = "createComment" /\ Completes(p) /\ last'.status = 201)
          => ~comments'[Len(comments')].isEdited
     /\ \A id \in 1..Len(comments) :
          comments'[id].isEdited # comments[id].isEdited
          => \E p \in Procs : h[p].pc = "updateComment" /\ h[p].id = id /\ Completes(p)
     /\ \A p \in Procs :
          (h[p].pc \in ListOps /\ Completes(p) /\ last'.status = 200)
          => \A i \in 1..Len(last'.comments) :
               /\ last'.comments[i].content = comments[last'.comments[i].id].content
               /\ last'.comments[i].isEdited = comments[last'.comments[i].id].isEdited]_vars

\* C23: a Create whose parent is missing or inactive persists no comment and
\* publishes no event, whether the parent is dead when the handler checks it
\* or its Delete commits between the check and the insert.
C23_DeadParent ==
  [][/\ \A p \in Procs, u \in Users, raw \in CreateInputs, parent \in Ids :
          ( /\ ~Exists(parent) \/ ~findById(parent).isActive
            /\ createComment(p, u, raw, parent) )
          => h'[p].pc = "done" /\ comments' = comments /\ events' = events
     /\ \A p \in Procs :
          ( /\ h[p].pc = "createComment"
            /\ Completes(p)
            /\ h[p].id # 0
            /\ ~findById(h[p].id).isActive )
          => comments' = comments /\ events' = events]_vars

MutationOps ==
  {"createComment", "updateComment", "deleteComment"} \cup ReactionOps

\* the event kinds of an operation: <<top-level variant, reply variant>>
KindsOf(op) ==
  IF op = "createComment" THEN <<"newComment", "newReply">>
  ELSE IF op = "updateComment" THEN <<"commentUpdated", "replyUpdated">>
  ELSE IF op = "deleteComment" THEN <<"commentDeleted", "replyDeleted">>
  ELSE <<"commentReaction", "replyReaction">>

\* C24: every mutation answered 200 / 201 publishes exactly one event; its
\* kind is the one of the operation, in the reply variant exactly when the
\* target comment has a parent; a reaction event carries the type, the
\* acting user and the likeCount and dislikeCount of the comment after the
\* operation.
C24_EventCatalogue ==
  [][\A p \in Procs :
       (h[p].pc \in MutationOps /\ Completes(p) /\ last'.status \in {200, 201})
       => LET id == IF h[p].pc = "createComment" THEN Len(comments') ELSE h[p].id
              e == events'[Len(events')]
          IN /\ Len(events') = Len(events) + 1
             /\ SubSeq(events', 1, Len(events)) = events
             /\ e.id = id
             /\ e.kind = KindsOf(h[p].pc)[IF comments'[id].parentComment # 0 THEN 2 ELSE 1]
             /\ h[p].pc \in ReactionOps
                  => /\ e.type = TypeOf(h[p].pc)
                     /\ e.userId = h[p].user
                     /\ e.likeCount = likeCount(comments'[id])
                     /\ e.dislikeCount = dislikeCount(comments'[id])]_vars

CreatedKinds == {"newComment", "newReply"}

UpdatedKinds == {"commentUpdated", "replyUpdated"}

DeletedKinds == {"commentDeleted", "replyDeleted"}

ReactionKinds == {"commentReaction", "replyReaction"}

\* the document of handler p after its reaction method ran on the copy it
\* loaded
Reacted(p) ==
  IF h[p].pc = "likeComment" THEN addLike(h[p].doc, h[p].user).doc
  ELSE IF h[p].pc = "dislikeComment" THEN addDislike(h[p].doc, h[p].user).doc
  ELSE removeReactionMethod(h[p].doc, h[p].user).doc

\* the stored comments cs hold what mutation handler p changed: the created
\* comment, the new content, the cleared isActive, or the entries of the
\* acting user that the reaction method added to or took from the loaded
\* likes and dislikes
Stored(p, cs) ==
  /\ h[p].pc = "createComment"
       => /\ Len(cs) = Len(comments) + 1
          /\ cs[Len(cs)].content = h[p].content
          /\ cs[Len(cs)].author = h[p].user
          /\ cs[Len(cs)].parentComment = h[p].id
          /\ cs[Len(cs)].isActive
  /\ h[p].pc = "updateComment"
       => cs[h[p].id].content = h[p].content /\ cs[h[p].id].isEdited
  /\ h[p].pc = "deleteComment" => ~cs[h[p].id].isActive
  /\ h[p].pc \in ReactionOps
       => /\ (Liked(Reacted(p), h[p].user) /\ ~Liked(h[p].doc, h[p].user))
               => Liked(cs[h[p].id], h[p].user)
          /\ (~Liked(Reacted(p), h[p].user) /\ Liked(h[p].doc, h[p].user))
               => ~Liked(cs[h[p].id], h[p].user)
          /\ (Disliked(Reacted(p), h[p].user) /\ ~Disliked(h[p].doc, h[p].user))
               => Disliked(cs[h[p].id], h[p].user)
          /\ (~Disliked(Reacted(p), h[p].user) /\ Disliked(h[p].doc, h[p].user))
               => ~Disliked(cs[h[p].id], h[p].user)

\* the entry of comment id in a listing answer
Item(r, id) == r.comments[CHOOSE i \in 1..Len(r.comments) : r.comments[i].id = id]

\* the listing answer r, given to caller userId for the comments under
\* parent, shows the mutation of the j-th event or a later state: a deleted
\* comment is not listed, an updated one is listed as edited, a created one
\* that is still active is listed, and a comment with no later reaction has
\* the counts of the event and, for the acting user, the flags of its type
Shown(j, r, userId, parent) ==
  LET e == events[j]
  IN /\ e.kind \in DeletedKinds => e.id \notin Listed(r)
     /\ (e.kind \in UpdatedKinds /\ e.id \in Listed(r)) => Item(r, e.id).isEdited
     /\ ( /\ e.kind \in CreatedKinds
          /\ comments[e.id].isActive
          /\ comments[e.id].parentComment = parent )
        => e.id \in Listed(r)
     /\ ( /\ e.kind \in ReactionKinds
          /\ e.id \in Listed(r)
          /\ \A k \in (j + 1)..Len(events) :
               ~(events[k].kind \in ReactionKinds /\ events[k].id = e.id) )
        => /\ Item(r, e.id).likeCount = e.likeCount
           /\ Item(r, e.id).dislikeCount = e.dislikeCount
           /\ userId = e.userId
                => /\ Item(r, e.id).isLikedByUser <=> e.type = "like"
                   /\ Item(r, e.id).isDislikedByUser <=> e.type = "dislike"

\* C25: when a mutation publishes its event, its write is in the store; and
\* a List issued after an event was published shows that mutation or a later
\* state, never an older one.
C25_EventAfterWrite ==
  [][/\ \A p \in Procs :
          (h[p].pc \in MutationOps /\ Completes(p) /\ Len(events') > Len(events))
          => Stored(p, comments')
     /\ \A p \in Procs :
          (h[p].pc \in ListOps /\ Completes(p) /\ last'.status = 200)
          => \A j \in 1..h[p].since : Shown(j, last', h[p].user, h[p].id)]_vars

\* a comment was created and updated, both events were published, and the
\* top level was listed afterwards: the comment is shown as edited
C25_Witness ==
  /\ AllDone
  /\ IsListOk(last)
  /\ last.op = "getComments"
  /\ Len(events) = 2
  /\ events[1].kind = "newComment"
  /\ events[2].kind = "commentUpdated"
  /\ Listed(last) = {events[2].id}
  /\ Item(last, events[2].id).isEdited

\* C26: when a mutation's write has changed the store, the caller is
\* answered 200 / 201 whether or not publishing the event succeeds; a
\* reaction is answered with the stored counts.
C26_BroadcastFailureHidden ==
  [][\A p \in Procs :
       (h[p].pc \in MutationOps /\ Completes(p) /\ comments' # comments)
       => /\ last'.status \in {200, 201}
          /\ h[p].pc \in ReactionOps
               => /\ last'.likeCount = likeCount(comments'[h[p].id])
                  /\ last'.dislikeCount = dislikeCount(comments'[h[p].id])]_vars

\* C27: a typing or stop-typing signal of a connection is relayed, as
\* userTyping or userStopTyping, to every other member of the comments room,
\* to nobody else and never to the sending connection, and no stored comment
\* changes.
C27_TypingRelay ==
  [][\A c \in Conns :
       (typing(c) \/ stopTyping(c))
       => /\ \A d \in room \ {c} :
               /\ Len(inbox'[d]) = Len(inbox[d]) + 1
               /\ SubSeq(inbox'[d], 1, Len(inbox[d])) = inbox[d]
               /\ inbox'[d][Len(inbox'[d])].username = c
               /\ inbox'[d][Len(inbox'[d])].name
                    = (IF typing(c) THEN "userTyping" ELSE "userStopTyping")
          /\ \A d \in (Conns \ room) \cup {c} : inbox'[d] = inbox[d]
          /\ comments' = comments]_vars

\* a member of the room has sent a signal that another member received,
\* and has received none itself
C27_Witness ==
  \E c \in room, d \in room :
    /\ c # d
    /\ inbox[c] = << >>
    /\ client[c].typingUsers = {}
    /\ inbox[d] # << >>
    /\ inbox[d][1].username = c

\* the comment an object of the displayed list stands for: its _id, or the
\* comment it wraps when it is the data of a Create response
CommentOf(x) == IF "comment" \in DOMAIN x THEN x.comment.id ELSE idOf(x)

NextEvent(c) == events[client[c].seen + 1]

\* C29: delivering a newReply event a second time leaves the displayed
\* list (the parent's replyCount) and the state of every CommentItem
\* (replyCount, replies, realTimeReplies) as the first delivery left them.
C29_IdempotentNewReply ==
  [][\A c \in Conns :
       (onEvent(c) /\ NextEvent(c).kind = "newReply")
       => LET again == Dispatch(client'[c], NextEvent(c), c)
          IN /\ again.comments = client'[c].comments
             /\ again.items = client'[c].items]_vars

\* the held object y is x after the reaction event e of another user: the
\* counts of the event and the flags of x when x is the comment of the
\* event, x otherwise
CountsOnly(x, y, e) ==
  IF idOf(x) # e.id THEN y = x
  ELSE /\ idOf(y) = idOf(x)
       /\ y.likeCount = e.likeCount
       /\ y.dislikeCount = e.dislikeCount
       /\ y.replyCount = x.replyCount
       /\ y.isLikedByUser = x.isLikedByUser
       /\ y.isDislikedByUser = x.isDislikedByUser

CountsOnlyAll(s, t, e) ==
  /\ Len(t) = Len(s)
  /\ \A i \in 1..Len(s) : CountsOnly(s[i], t[i], e)

C35_ListSnapshot ==
  IsListOk(last) =>
    LET pg == last.pagination
    IN /\ Len(last.comments)
            = (IF pg.total = 0 THEN 0 ELSE pg.endIndex - pg.startIndex + 1)
       /\ pg.currentPage <= Max(1, pg.totalPages)

\* C38: in every successful listing isLastPage is true exactly when
\* hasNextPage is false, the empty listing (total = 0, page = 1) included.
C38_LastPageFlag ==
  IsListOk(last) => (last.pagination.isLastPage <=> ~last.pagination.hasNextPage)

\* C36: once a comment is inactive its content, its isEdited flag, its
\* likes and its dislikes stay as they were when the Delete was persisted,
\* also when an Update or a reaction loaded the comment before the Delete
\* and saves after it.
C36_DeletedIsFrozen ==
  [][\A id \in 1..Len(comments) :
       ~comments[id].isActive
       => /\ comments'[id].content = comments[id].content
          /\ comments'[id].isEdited = comments[id].isEdited
          /\ comments'[id].likes = comments[id].likes
          /\ comments'[id].dislikes = comments[id].dislikes]_vars

\* C37: a mutation that answers its caller with a server error has left the
\* stored comments unchanged and has published no event.
C37_ErrorMeansNoWrite ==
  [][\A p \in Procs :
       (h[p].pc \in MutationOps /\ Completes(p) /\ last'.status = 500)
       => /\ comments' = comments
          /\ events' = events]_vars

\* the ids of the replies a list of held replies holds
HeldIds(s) == {s[i].id : i \in 1..Len(s)}

\* C31: on a client that displays the top-level comment X and holds the
\* reply r of X since its newReply event, the replyDeleted event of r takes
\* the one increment back: the replyCount of X in the displayed list and in
\* the CommentItem of X both go down by exactly one, whether or not the
\* replies of X were loaded from the server in between.
C31_ReplyCountRoundTrip ==
  [][\A c \in Conns :
       (onEvent(c) /\ NextEvent(c).kind = "replyDeleted")
       => LET r == NextEvent(c).id
              X == comments[r].parentComment
          IN ( /\ client[c].items[X].mounted
               /\ r \in HeldIds(client[c].items[X].realTimeReplies) )
             => /\ Entry(client'[c].comments, X).replyCount
                     = Entry(client[c].comments, X).replyCount - 1
                /\ client'[c].items[X].currentComment.replyCount
                     = client[c].items[X].currentComment.replyCount - 1]_vars

\* C32: a commentDeleted event removes the entries with that id from the
\* displayed list and leaves every other entry, and the CommentItem of every
\* other comment, unchanged; when no displayed comment has that id the list
\* is unchanged.
C32_DeleteMerge ==
  [][\A c \in Conns :
       (onEvent(c) /\ NextEvent(c).kind = "commentDeleted")
       => LET d == NextEvent(c).id
              before == client[c].comments
              after == client'[c].comments
          IN /\ d \notin ListIds(after)
             /\ after = SelectSeq(before, LAMBDA x : idOf(x) # d)
             /\ d \notin ListIds(before) => after = before
             /\ \A id \in Ids \ {d} : client'[c].items[id] = client[c].items[id]]_vars

\* a client displayed two comments and has received the commentDeleted event
\* of the newer one: the older one is still displayed, with its CommentItem
C32_Witness ==
  \E c \in Conns, d \in Ids, k \in Ids :
    /\ client[c].seen = Len(events)
    /\ Len(events) = 3
    /\ events[3].kind = "commentDeleted"
    /\ events[3].id = d
    /\ k < d
    /\ ListIds(client[c].comments) = {k}
    /\ client[c].items[k].mounted
    /\ ~client[c].items[d].mounted
    /\ client[c].pagination.total = 1

\* C33: in the comment list of a client, after any sequence of
\* commentReaction events for a displayed comment (like, dislike, remove,
\* of the client's user or of others), at most one of isLikedByUser and
\* isDislikedByUser is true for that comment.
C33_FlagExclusivity ==
  \A c \in Conns :
    \A i \in 1..Len(client[c].comments) :
      idOf(client[c].comments[i]) # 0
      => ~(client[c].comments[i].isLikedByUser /\ client[c].comments[i].isDislikedByUser)

\* C34: once no request is in flight and a client has received every
\* published event, the likeCount and dislikeCount it displays for a comment
\* (in its list and in the comment's CommentItem) are the numbers of users in
\* the stored likes and dislikes, also when two reaction handlers on the same
\* comment overlap.
C34_CountConvergence ==
  \A c \in Conns :
    (AllDone /\ client[c].seen = Len(events))
    => \A id \in Ids :
         client[c].items[id].mounted
         => /\ client[c].items[id].currentComment.likeCount
                 = Cardinality(Range(comments[id].likes))
            /\ client[c].items[id].currentComment.dislikeCount
                 = Cardinality(Range(comments[id].dislikes))
            /\ Entry(client[c].comments, id).likeCount
                 = Cardinality(Range(comments[id].likes))
            /\ Entry(client[c].comments, id).dislikeCount
                 = Cardinality(Range(comments[id].dislikes))

\* C39: whenever the user of a connection does not type (it never typed, it
\* submitted, blurred or emptied the field, or its connection was closed),
\* every other client's typing set eventually does not contain that user.
C39_TypingClears ==
  \A u \in Conns : \A d \in Conns \ {u} :
    (~client[u].isTyping) ~> (u \notin client[d].typingUsers)

====
